---- MODULE Spec2Model ----
(***************************************************************************)
(* Model of the NGINX CRD -> Gateway API conversion engine                 *)
(* (pkg/i2gw/providers/nginx/crds): CRDsToGatewayIR, the RouteResolver and *)
(* the VirtualServerRouteConverter / TransportServerConverter.             *)
(*                                                                         *)
(* Encoding conventions                                                    *)
(*  - a Go pointer is a sequence of length 0 (nil) or 1 (&v);              *)
(*  - a Go map is a TLA+ function over its key set;                        *)
(*  - an object name is the list of its "-" separated parts, so that       *)
(*    name + "-httproute" is name \o <<"httproute">>;                      *)
(*  - a VirtualServerRoute reference is the list of its "/" separated      *)
(*    segments, the empty reference being <<>>;                            *)
(*  - a condition value is the list of its characters;                     *)
(*  - a notification message is a tuple <<format, arg, ...>>.              *)
(***************************************************************************)
EXTENDS Integers, Sequences, FiniteSets, TLC

\* ------------------------------------------------------------------ bounds
MaxMatches == 2
MaxSplits == 2
MaxRoutes == 2
MaxSubroutes == 2
MaxVirtualServers == 2
MaxTransportServers == 1
MaxTransportServersAlone == 2

\* ------------------------------------------------------- generic helpers
Nil == <<>>
Ptr(v) == <<v>>
Deref(p) == p[1]

Range(s) == {s[i] : i \in 1..Len(s)}

Min(S) == CHOOSE x \in S : \A y \in S : x <= y

SeqsUpTo(S, n) == UNION {[1..k -> S] : k \in 0..n}

RECURSIVE Flatten(_)
Flatten(ss) == IF ss = <<>> THEN <<>> ELSE Head(ss) \o Flatten(Tail(ss))

RECURSIVE SelectIdx(_, _, _)
\* the sub-sequence of s at the positions i (in order) for which keep[i]
SelectIdx(s, keep, i) ==
  IF i > Len(s) THEN <<>>
  ELSE (IF keep[i] THEN <<s[i]>> ELSE <<>>) \o SelectIdx(s, keep, i + 1)

\* m[k] if k is a key of the Go map m
HasKey(m, k) == k \in DOMAIN m

\* m[k] = v for a Go map
MapPut(m, k, v) == (k :> v) @@ m

\* maps.Copy(dst, src) / "for k, v := range src { dst[k] = v }"
MapCopy(dst, src) == src @@ dst

EmptyMap == <<>>

\* v bound to a name: With(v, LAMBDA x : e) is e with v for x
With(v, F(_)) == F(v)

\* ------------------------------------------------------------ notifications
Notification(type, message, obj) == [Type |-> type, Message |-> message, Object |-> obj]

\* the client.Object a notification refers to: kind, namespace, name
ObjRef(vs) == <<"VirtualServer", vs.Namespace, vs.Name>>

NoObject == <<>>

addNotification(type, message, vs) == <<Notification(type, message, ObjRef(vs))>>

\* ----------------------------------------------------------------- upstreams
findUpstream(upstreams, name) ==
  LET hits == {i \in 1..Len(upstreams) : upstreams[i].Name = name}
  IN IF hits = {} THEN Nil ELSE Ptr(upstreams[Min(hits)])

\* validateUpstream: ok plus the notifications it appends
validateUpstream(upstream, vs) ==
  IF upstream.Service = <<>>
  THEN [ok |-> FALSE,
        notifs |-> addNotification("Warning", <<"Upstream '%s' has no service specified", upstream.Name>>, vs)]
  ELSE IF upstream.Port = 0
  THEN [ok |-> FALSE,
        notifs |-> addNotification("Warning", <<"Upstream '%s' has no port specified", upstream.Name>>, vs)]
  ELSE [ok |-> TRUE, notifs |-> <<>>]

\* the only non-converted upstream field the model's inputs set is LBMethod
checkUnsupportedUpstreamFields(upstream, vs) ==
  IF upstream.LBMethod # "" /\ upstream.LBMethod # "least_conn"
  THEN addNotification("Info", <<"Upstream '%s': LBMethod '%s' will be set to random two least_conn by default",
                                 upstream.Name, upstream.LBMethod>>, vs)
  ELSE <<>>

populateUpstreamConfig(upstream, vs) ==
  [config |-> [Name |-> upstream.Name, Service |-> upstream.Service, Port |-> upstream.Port,
               Type |-> upstream.Type, TLS |-> upstream.TLS],
   notifs |-> checkUnsupportedUpstreamFields(upstream, vs)]

\* ---------------------------------------------------------------- conditions
\* Header, Argument, Cookie, Variable and Value are lists of characters.
RegexChars == {"*", "^", "$", "[", "]", "(", ")", ".", "+", "?", "|", "\\"}

\* value[0:1] == char || value[len-1:] == char || len > 2 && value[1:len-1] != value
containsRegexPatterns(value) ==
  \E char \in RegexChars :
     Len(value) > 0 /\ (\/ value[1] = char
                        \/ value[Len(value)] = char
                        \/ (Len(value) > 2 /\ SubSeq(value, 2, Len(value) - 1) # value))

QuoteMetaChars == {"\\", ".", "+", "*", "?", "(", ")", "|", "[", "]", "{", "}", "^", "$"}

RECURSIVE QuoteMeta(_)
QuoteMeta(s) ==
  IF s = <<>> THEN <<>>
  ELSE (IF Head(s) \in QuoteMetaChars THEN <<"\\", Head(s)>> ELSE <<Head(s)>>) \o QuoteMeta(Tail(s))

HasPrefix(s, c) == Len(s) > 0 /\ s[1] = c

\* the pattern built by createHeaderMatch and createQueryMatch from condition.Value
ValuePattern(value) ==
  LET negate == HasPrefix(value, "!")
      raw == IF negate THEN Tail(value) ELSE value
      pattern == IF ~containsRegexPatterns(raw) THEN <<"(?i)^">> \o QuoteMeta(raw) \o <<"$">> ELSE raw
  IN IF negate THEN <<"^(?!">> \o pattern \o <<").*$">> ELSE pattern

createHeaderMatch(condition, vs) ==
  IF condition.Header = <<>> \/ condition.Value = <<>>
  THEN [match |-> Nil,
        notifs |-> addNotification("Warning", <<"Header condition missing name or value">>, vs)]
  ELSE [match |-> Ptr([Type |-> "RegularExpression", Name |-> condition.Header,
                       Value |-> ValuePattern(condition.Value)]),
        notifs |-> <<>>]

createQueryMatch(condition, vs) ==
  IF condition.Argument = <<>> \/ condition.Value = <<>>
  THEN [match |-> Nil,
        notifs |-> addNotification("Warning", <<"Query parameter condition missing name or value">>, vs)]
  ELSE [match |-> Ptr([Type |-> "RegularExpression", Name |-> condition.Argument,
                       Value |-> ValuePattern(condition.Value)]),
        notifs |-> <<>>]

createCookieMatch(condition, vs) ==
  IF condition.Cookie = <<>> \/ condition.Value = <<>>
  THEN [match |-> Nil,
        notifs |-> addNotification("Warning", <<"Cookie condition missing name or value">>, vs)]
  ELSE LET negate == HasPrefix(condition.Value, "!")
           raw == IF negate THEN Tail(condition.Value) ELSE condition.Value
           cookieNameValue == condition.Cookie \o <<"=">> \o raw
           pattern == IF ~containsRegexPatterns(cookieNameValue)
                      THEN <<"(?i).*\\b">> \o QuoteMeta(cookieNameValue) \o <<"\\b.*">>
                      ELSE <<"(?i).*">> \o cookieNameValue \o <<".*">>
       IN [match |-> Ptr([Type |-> "RegularExpression", Name |-> <<"C", "o", "o", "k", "i", "e">>,
                          Value |-> IF negate THEN <<"^(?!.*">> \o cookieNameValue \o <<").*$">>
                                    ELSE pattern]),
           notifs |-> addNotification("Info", <<"Cookie condition converted to Cookie header match">>, vs)]

RECURSIVE processConditions(_, _)
\* [headerMatches, queryMatches, notifs]
processConditions(conditions, vs) ==
  IF conditions = <<>> THEN [headerMatches |-> <<>>, queryMatches |-> <<>>, notifs |-> <<>>]
  ELSE LET condition == Head(conditions)
           rest == processConditions(Tail(conditions), vs)
       IN IF condition.Header # <<>>
          THEN With(createHeaderMatch(condition, vs), LAMBDA h :
                 [headerMatches |-> h.match \o rest.headerMatches,
                  queryMatches |-> rest.queryMatches,
                  notifs |-> h.notifs \o rest.notifs])
          ELSE IF condition.Argument # <<>>
          THEN With(createQueryMatch(condition, vs), LAMBDA q :
                 [headerMatches |-> rest.headerMatches,
                  queryMatches |-> q.match \o rest.queryMatches,
                  notifs |-> q.notifs \o rest.notifs])
          ELSE IF condition.Cookie # <<>>
          THEN With(createCookieMatch(condition, vs), LAMBDA c :
                 [headerMatches |-> c.match \o rest.headerMatches,
                  queryMatches |-> rest.queryMatches,
                  notifs |-> c.notifs \o rest.notifs])
          ELSE IF condition.Variable # <<>>
          THEN [headerMatches |-> rest.headerMatches,
                queryMatches |-> rest.queryMatches,
                notifs |-> addNotification("Info",
                              <<"NGINX variable condition stored in provider-specific IR - not directly supported in Gateway API">>,
                              vs) \o rest.notifs]
          ELSE rest

\* createMatch: the base path match extended with the match's predicates
createMatch(basePathMatch, match, vs) ==
  IF Len(match.Conditions) > 0
  THEN With(processConditions(match.Conditions, vs), LAMBDA conds :
         [match |-> [Path |-> basePathMatch.Path,
                     Headers |-> conds.headerMatches,
                     QueryParams |-> conds.queryMatches],
          notifs |-> conds.notifs])
  ELSE [match |-> basePathMatch, notifs |-> <<>>]

\* ------------------------------------------------------------------- actions
\* An Action has the fields Pass (a name), Redirect, Return and Proxy (pointers).
BackendRef(name, port) == [Name |-> name, Port |-> port, Weight |-> Nil, Filters |-> <<>>]

\* handlePassAction: [ref, notifs]
handlePassAction(vs, action) ==
  LET upstream == findUpstream(vs.Spec.Upstreams, action.Pass)
  IN IF upstream # Nil
     THEN [ref |-> Ptr(BackendRef(action.Pass, Deref(upstream).Port)), notifs |-> <<>>]
     ELSE [ref |-> Nil,
           notifs |-> addNotification("Warning", <<"Upstream '%s' not found for route", action.Pass>>, vs)]

\* the status code with the codes 307 and 308 passed on as they are
RedirectStatusCodeKept(code) ==
  IF code = 0 THEN 301
  ELSE code

\* the status code of the redirect filter: 301 by default, 307 -> 302, 308 -> 301
RedirectStatusCode(code) ==
  IF code = 0 THEN 301
  ELSE IF code = 307 THEN 302
  ELSE IF code = 308 THEN 301
  ELSE code

\* Redirect.URL is modelled by its parsed components (Scheme, Host, Path), "" when absent
handleRedirectAction(vs, action) ==
  LET redirect == Deref(action.Redirect)
  IN [Type |-> "RequestRedirect",
      StatusCode |-> RedirectStatusCode(redirect.Code),
      Scheme |-> redirect.URL.Scheme,
      Hostname |-> redirect.URL.Host,
      Path |-> redirect.URL.Path]

handleReturnAction(vs, action) ==
  addNotification("Warning",
      <<"Return action with code %d not directly supported in Gateway API", Deref(action.Return).Code>>, vs)

\* the filter factory replacing the prefix whatever the rewrite path is
NewURLRewriteFilterPrefixOnly(rewritePath, vs) ==
  [filter |-> [Type |-> "URLRewrite", PathType |-> "ReplacePrefixMatch", Value |-> rewritePath],
   notifs |-> addNotification("Info", <<"Path rewrite converted to prefix replacement">>, vs)]

\* the URLRewrite filter the filter factory builds for a rewrite path
NewURLRewriteFilter(rewritePath, vs) ==
  IF HasPrefix(rewritePath, "/")
  THEN [filter |-> [Type |-> "URLRewrite", PathType |-> "ReplaceFullPath", Value |-> rewritePath],
        notifs |-> addNotification("Info", <<"Path rewrite converted to FullPath replacement">>, vs)]
  ELSE IF rewritePath = <<>>
  THEN [filter |-> [Type |-> "URLRewrite", PathType |-> "ReplacePrefixMatch", Value |-> <<"/">>],
        notifs |-> addNotification("Info", <<"Empty path rewrite converted to prefix removal">>, vs)]
  ELSE [filter |-> [Type |-> "URLRewrite", PathType |-> "ReplacePrefixMatch", Value |-> rewritePath],
        notifs |-> addNotification("Info", <<"Path rewrite converted to prefix replacement">>, vs)]

\* createPathRewriteFilter: [filter, notifs, collected]; collected is what the
\* function's collector holds when it returns, notifs what it appended to the
\* caller's list. A "$" in the path returns nil before the collector is merged.
createPathRewriteFilter(rewritePath, vs) ==
  IF "$" \in Range(rewritePath)
  THEN [filter |-> Nil, notifs |-> <<>>,
        collected |-> addNotification("Warning",
                         <<"Path rewrite contains $ - not supported in Gateway API">>, vs)]
  ELSE With(NewURLRewriteFilter(rewritePath, vs), LAMBDA f :
         [filter |-> Ptr(f.filter), notifs |-> f.notifs, collected |-> f.notifs])

\* createRequestHeaderFilter: requestHeaders is a pointer to [Set, Pass]
createRequestHeaderFilter(requestHeaders, vs) ==
  IF requestHeaders = Nil THEN [filter |-> Nil, notifs |-> <<>>]
  ELSE [filter |-> Ptr([Type |-> "RequestHeaderModifier", Set |-> Deref(requestHeaders).Set, Remove |-> <<>>]),
        notifs |-> IF Deref(requestHeaders).Pass # Nil /\ ~Deref(Deref(requestHeaders).Pass)
                   THEN addNotification("Warning",
                          <<"Request header pass=false ignored - complex header filtering not fully supported">>, vs)
                   ELSE <<>>]

RECURSIVE AlwaysWarnings(_, _)
AlwaysWarnings(add, vs) ==
  IF add = <<>> THEN <<>>
  ELSE (IF ~Head(add).Always
        THEN addNotification("Warning", <<"always flag is always true in gateway api">>, vs)
        ELSE <<>>) \o AlwaysWarnings(Tail(add), vs)

\* createResponseHeaderFilter: responseHeaders is a pointer to [Add, Hide, Pass, Ignore]
createResponseHeaderFilter(responseHeaders, vs) ==
  IF responseHeaders = Nil THEN [filter |-> Nil, notifs |-> <<>>]
  ELSE LET rh == Deref(responseHeaders)
       IN [filter |-> Ptr([Type |-> "ResponseHeaderModifier",
                           Set |-> [i \in 1..Len(rh.Add) |-> [Name |-> rh.Add[i].Name, Value |-> rh.Add[i].Value]],
                           Remove |-> rh.Hide]),
           notifs |-> AlwaysWarnings(rh.Add, vs) \o
                      (IF Len(rh.Pass) > 0 \/ Len(rh.Ignore) > 0
                       THEN addNotification("Warning",
                              <<"Response header pass/ignore configuration is not supported in Gateway API">>, vs)
                       ELSE <<>>)]

\* handleAdvancedProxyAction: [ref, filters, notifs]
handleAdvancedProxyAction(vs, action) ==
  IF action.Proxy = Nil THEN [ref |-> Nil, filters |-> <<>>, notifs |-> <<>>]
  ELSE LET proxy == Deref(action.Proxy)
           upstream == findUpstream(vs.Spec.Upstreams, proxy.Upstream)
       IN IF proxy.Upstream = <<>>
          THEN [ref |-> Nil, filters |-> <<>>,
                notifs |-> addNotification("Warning", <<"Proxy action missing upstream reference">>, vs)]
          ELSE IF upstream = Nil
          THEN [ref |-> Nil, filters |-> <<>>,
                notifs |-> addNotification("Warning",
                              <<"Upstream '%s' not found for proxy action", proxy.Upstream>>, vs)]
          ELSE With(<<IF proxy.RewritePath # <<>> THEN createPathRewriteFilter(proxy.RewritePath, vs)
                      ELSE [filter |-> Nil, notifs |-> <<>>],
                      createRequestHeaderFilter(proxy.RequestHeaders, vs),
                      createResponseHeaderFilter(proxy.ResponseHeaders, vs)>>,
                    LAMBDA made :
                      [ref |-> Ptr(BackendRef(proxy.Upstream, Deref(upstream).Port)),
                       filters |-> made[1].filter \o made[2].filter \o made[3].filter,
                       notifs |-> made[1].notifs \o made[2].notifs \o made[3].notifs])

\* handleRouteActions: the rule after the action (a pointer) was applied, and the notifications
handleRouteActions(vs, action, rule) ==
  IF action = Nil THEN [rule |-> rule, notifs |-> <<>>]
  ELSE LET a == Deref(action)
       IN IF a.Pass # <<>>
          THEN With(handlePassAction(vs, a), LAMBDA pass :
                 [rule |-> IF pass.ref # Nil THEN [rule EXCEPT !.BackendRefs = <<Deref(pass.ref)>>] ELSE rule,
                  notifs |-> pass.notifs])
          ELSE IF a.Redirect # Nil
          THEN [rule |-> [rule EXCEPT !.Filters = Append(@, handleRedirectAction(vs, a))],
                notifs |-> <<>>]
          ELSE IF a.Return # Nil
          THEN [rule |-> rule, notifs |-> handleReturnAction(vs, a)]
          ELSE With(handleAdvancedProxyAction(vs, a), LAMBDA proxy :
                 [rule |-> [rule EXCEPT !.BackendRefs = IF proxy.ref # Nil THEN <<Deref(proxy.ref)>> ELSE @,
                                        !.Filters = @ \o proxy.filters],
                  notifs |-> proxy.notifs])

\* one iteration of the loop of handleTrafficSplits: [rule, notifs]
SplitStep(vs, split, rule) ==
  IF split.Action = Nil \/ split.Weight = 0
  THEN [rule |-> rule, notifs |-> <<>>]
  ELSE LET a == Deref(split.Action)
       IN IF a.Pass # <<>>
          THEN With(handlePassAction(vs, a), LAMBDA pass :
                 [rule |-> IF pass.ref # Nil
                           THEN [rule EXCEPT !.BackendRefs =
                                   Append(@, [Deref(pass.ref) EXCEPT !.Weight = Ptr(split.Weight)])]
                           ELSE rule,
                  notifs |-> pass.notifs])
          ELSE IF a.Redirect # Nil
          THEN [rule |-> [rule EXCEPT !.BackendRefs =
                            Append(@, [Name |-> <<>>, Port |-> 0, Weight |-> Ptr(split.Weight),
                                       Filters |-> <<handleRedirectAction(vs, a)>>])],
                notifs |-> <<>>]
          ELSE IF a.Return # Nil
          THEN [rule |-> rule, notifs |-> handleReturnAction(vs, a)]
          ELSE With(handleAdvancedProxyAction(vs, a), LAMBDA proxy :
                 [rule |-> IF proxy.ref # Nil
                           THEN [rule EXCEPT !.BackendRefs =
                                   Append(@, [Deref(proxy.ref) EXCEPT !.Weight = Ptr(split.Weight),
                                                                      !.Filters = @ \o proxy.filters])]
                           ELSE rule,
                  notifs |-> proxy.notifs])

RECURSIVE SplitLoop(_, _, _)
\* the loop of handleTrafficSplits over the splits
SplitLoop(vs, splits, rule) ==
  IF splits = <<>> THEN [rule |-> rule, notifs |-> <<>>]
  ELSE With(SplitStep(vs, Head(splits), rule), LAMBDA step :
         With(SplitLoop(vs, Tail(splits), step.rule), LAMBDA rest :
           [rule |-> rest.rule, notifs |-> step.notifs \o rest.notifs]))

handleTrafficSplits(vs, splits, rule) ==
  IF Len(splits) = 0 THEN [rule |-> rule, notifs |-> <<>>]
  ELSE With(SplitLoop(vs, splits, rule), LAMBDA loop :
         [rule |-> loop.rule,
          notifs |-> loop.notifs \o
                     addNotification("Info",
                        <<"Traffic splitting configuration converted to weighted backend refs">>, vs)])

\* --------------------------------------------------------------------- rules
\* A path is the list of its tokens, "/" and "~" being tokens of their own.
\* A rule carries Origin = <<position of its resolved route, position of its
\* match>>, the two loop positions at which it was appended (the catch-all rule
\* has the position after the last match); Origin is no field of the Go rule.
BasePathMatch(route) ==
  [Path |-> [Type |-> IF HasPrefix(route.Path, "~") THEN "RegularExpression" ELSE "PathPrefix",
             Value |-> route.Path],
   Headers |-> <<>>, QueryParams |-> <<>>]

NewRule(match, origin) == [Matches |-> <<match>>, Filters |-> <<>>, BackendRefs |-> <<>>, Origin |-> origin]

\* one iteration of the loop over route.Matches: [rules, notifs]
MatchStep(vs, basePathMatch, match, origin) ==
  IF match.Action = Nil THEN [rules |-> <<>>, notifs |-> <<>>]
  ELSE With(createMatch(basePathMatch, match, vs), LAMBDA m :
         IF Len(m.match.Headers) = 0 /\ Len(m.match.QueryParams) = 0
         THEN [rules |-> <<>>, notifs |-> m.notifs]
         ELSE With(handleRouteActions(vs, match.Action, NewRule(m.match, origin)), LAMBDA acted :
                With(handleTrafficSplits(vs, match.Splits, acted.rule), LAMBDA split :
                  [rules |-> <<split.rule>>, notifs |-> m.notifs \o acted.notifs \o split.notifs])))

RECURSIVE MatchLoop(_, _, _, _, _)
MatchLoop(vs, basePathMatch, matches, k, rrPos) ==
  IF k > Len(matches) THEN [rules |-> <<>>, notifs |-> <<>>]
  ELSE With(MatchStep(vs, basePathMatch, matches[k], <<rrPos, k>>), LAMBDA step :
         With(MatchLoop(vs, basePathMatch, matches, k + 1, rrPos), LAMBDA rest :
           [rules |-> step.rules \o rest.rules, notifs |-> step.notifs \o rest.notifs]))

\* convertResolvedRouteToRules with the catch-all rule put before the match-level rules
convertResolvedRouteToRulesCatchAllFirst(resolvedRoute, rrPos) ==
  LET route == resolvedRoute.Route
      vs == resolvedRoute.VirtualServer
  IN With(MatchLoop(vs, BasePathMatch(route), route.Matches, 1, rrPos), LAMBDA matched :
       IF route.Action # Nil \/ Len(route.Splits) > 0
       THEN With(handleRouteActions(vs, route.Action,
                                    NewRule(BasePathMatch(route), <<rrPos, Len(route.Matches) + 1>>)),
                 LAMBDA acted :
                   With(handleTrafficSplits(vs, route.Splits, acted.rule), LAMBDA split :
                     [rules |-> <<split.rule>> \o matched.rules,
                      notifs |-> matched.notifs \o acted.notifs \o split.notifs]))
       ELSE matched)

\* convertResolvedRouteToRules: [rules, notifs] for the resolved route at position rrPos
convertResolvedRouteToRules(resolvedRoute, rrPos) ==
  LET route == resolvedRoute.Route
      vs == resolvedRoute.VirtualServer
  IN With(MatchLoop(vs, BasePathMatch(route), route.Matches, 1, rrPos), LAMBDA matched :
       IF route.Action # Nil \/ Len(route.Splits) > 0
       THEN With(handleRouteActions(vs, route.Action,
                                    NewRule(BasePathMatch(route), <<rrPos, Len(route.Matches) + 1>>)),
                 LAMBDA acted :
                   With(handleTrafficSplits(vs, route.Splits, acted.rule), LAMBDA split :
                     [rules |-> Append(matched.rules, split.rule),
                      notifs |-> matched.notifs \o acted.notifs \o split.notifs]))
       ELSE matched)

RECURSIVE RulesLoop(_, _)
\* the loop of ConvertToRoutes over the resolved routes, from position i on
RulesLoop(resolved, i) ==
  IF i > Len(resolved) THEN [rules |-> <<>>, notifs |-> <<>>]
  ELSE With(convertResolvedRouteToRules(resolved[i], i), LAMBDA one :
         With(RulesLoop(resolved, i + 1), LAMBDA rest :
           [rules |-> one.rules \o rest.rules, notifs |-> one.notifs \o rest.notifs]))

\* isRouteGRPC: some backend ref names an upstream config of type grpc
isRouteGRPC(rule, configs) ==
  \E j \in 1..Len(rule.BackendRefs) :
     HasKey(configs, rule.BackendRefs[j].Name) /\ configs[rule.BackendRefs[j].Name].Type = "grpc"

RECURSIVE convertHTTPFiltersToGRPCFilters(_, _)
\* [filters, notifs]
convertHTTPFiltersToGRPCFilters(httpFilters, vs) ==
  IF httpFilters = <<>> THEN [filters |-> <<>>, notifs |-> <<>>]
  ELSE LET f == Head(httpFilters)
           rest == convertHTTPFiltersToGRPCFilters(Tail(httpFilters), vs)
       IN IF f.Type \in {"RequestHeaderModifier", "ResponseHeaderModifier"}
          THEN [filters |-> <<f>> \o rest.filters, notifs |-> rest.notifs]
          ELSE IF f.Type = "RequestRedirect"
          THEN [filters |-> rest.filters,
                notifs |-> addNotification("Info", <<"HTTP redirect filter not applicable to gRPC, skipping">>, vs)
                           \o rest.notifs]
          ELSE IF f.Type = "URLRewrite"
          THEN [filters |-> rest.filters,
                notifs |-> addNotification("Info", <<"HTTP URL rewrite filter not applicable to gRPC, skipping">>, vs)
                           \o rest.notifs]
          ELSE [filters |-> rest.filters,
                notifs |-> addNotification("Warning",
                              <<"Unknown HTTP filter type %s encountered during gRPC conversion", f.Type>>, vs)
                           \o rest.notifs]

\* parseGRPCServiceMethod: the path without its leading "/", cut at its last "/"
parseGRPCServiceMethod(path) ==
  LET p == IF HasPrefix(path, "/") THEN Tail(path) ELSE path
      slashes == {i \in 1..Len(p) : p[i] = "/"}
      lastSlash == CHOOSE i \in slashes : \A j \in slashes : j <= i
  IN IF slashes # {}
     THEN [service |-> SubSeq(p, 1, lastSlash - 1), method |-> SubSeq(p, lastSlash + 1, Len(p))]
     ELSE [service |-> p, method |-> <<>>]

convertHTTPMatchesToGRPCMatches(httpMatches) ==
  [i \in 1..Len(httpMatches) |->
     LET sm == parseGRPCServiceMethod(httpMatches[i].Path.Value)
     IN [Method |-> IF sm.service # <<>> THEN Ptr([Service |-> sm.service, Method |-> sm.method]) ELSE Nil,
         Headers |-> httpMatches[i].Headers]]

RECURSIVE GRPCBackendRefs(_, _)
GRPCBackendRefs(refs, vs) ==
  IF refs = <<>> THEN [refs |-> <<>>, notifs |-> <<>>]
  ELSE With(convertHTTPFiltersToGRPCFilters(Head(refs).Filters, vs), LAMBDA fs :
         With(GRPCBackendRefs(Tail(refs), vs), LAMBDA rest :
           [refs |-> <<[Head(refs) EXCEPT !.Filters = fs.filters]>> \o rest.refs,
            notifs |-> fs.notifs \o rest.notifs]))

\* convertHTTPRuleToGRPCRule: [rule, notifs]
convertHTTPRuleToGRPCRule(httpRule, vs) ==
  With(GRPCBackendRefs(httpRule.BackendRefs, vs), LAMBDA refs :
    With(convertHTTPFiltersToGRPCFilters(httpRule.Filters, vs), LAMBDA fs :
      [rule |-> [Matches |-> convertHTTPMatchesToGRPCMatches(httpRule.Matches),
                 Filters |-> fs.filters,
                 BackendRefs |-> refs.refs,
                 Origin |-> httpRule.Origin],
       notifs |-> refs.notifs \o fs.notifs]))

RECURSIVE PartitionLoop(_, _, _)
\* the partition loop of ConvertToRoutes: [httpRules, grpcRules, notifs]
PartitionLoop(rs, configs, vs) ==
  IF rs = <<>> THEN [httpRules |-> <<>>, grpcRules |-> <<>>, notifs |-> <<>>]
  ELSE With(PartitionLoop(Tail(rs), configs, vs), LAMBDA rest :
         IF isRouteGRPC(Head(rs), configs)
         THEN With(convertHTTPRuleToGRPCRule(Head(rs), vs), LAMBDA g :
                [httpRules |-> rest.httpRules, grpcRules |-> <<g.rule>> \o rest.grpcRules,
                 notifs |-> g.notifs \o rest.notifs])
         ELSE [httpRules |-> <<Head(rs)>> \o rest.httpRules, grpcRules |-> rest.grpcRules,
               notifs |-> rest.notifs])

\* convertUpstreamNamesToServiceNames and convertGRPCUpstreamNamesToServiceNames
convertUpstreamNamesToServiceNames(rs, configs) ==
  [i \in 1..Len(rs) |->
     [rs[i] EXCEPT !.BackendRefs =
        [j \in 1..Len(rs[i].BackendRefs) |->
           IF HasKey(configs, rs[i].BackendRefs[j].Name)
           THEN [rs[i].BackendRefs[j] EXCEPT !.Name = configs[rs[i].BackendRefs[j].Name].Service]
           ELSE rs[i].BackendRefs[j]]]]

\* ------------------------------------------------------------------ resolver
NamespacedName(namespace, name) == <<namespace, name>>

RECURSIVE JoinSlash(_)
\* the reference string put together again from its segments
JoinSlash(parts) ==
  IF Len(parts) <= 1 THEN Flatten(parts)
  ELSE Head(parts) \o <<"/">> \o JoinSlash(Tail(parts))

\* NewRouteResolver: the index of the VirtualServerRoutes, a later one replacing
\* an earlier one of the same key
RECURSIVE RouteIndex(_)
RouteIndex(vsrs) ==
  IF vsrs = <<>> THEN EmptyMap
  ELSE LET last == vsrs[Len(vsrs)]
       IN MapPut(RouteIndex(SubSeq(vsrs, 1, Len(vsrs) - 1)),
                 NamespacedName(last.Namespace, last.Name), last)

parseVSRReference(ref, defaultNamespace) ==
  IF Len(ref) = 1 THEN NamespacedName(defaultNamespace, ref[1])
  ELSE IF Len(ref) = 2 THEN NamespacedName(ref[1], ref[2])
  ELSE NamespacedName(defaultNamespace, JoinSlash(ref))

\* the resolver following the reference of a sub-route one level further
resolveRouteRecursing(routeIndex, route, vs) ==
  LET vsrKey == parseVSRReference(route.Route, vs.Namespace)
      vsr == routeIndex[vsrKey]
      Expand(owner, sub) ==
        [Route |-> sub,
         Source |-> [Type |-> "VirtualServerRoute", Namespace |-> owner.Namespace, Name |-> owner.Name],
         VirtualServer |-> vs,
         Upstreams |-> owner.Spec.Upstreams]
      resolved == Flatten([i \in 1..Len(vsr.Spec.Subroutes) |->
                     LET sub == vsr.Spec.Subroutes[i]
                         subKey == parseVSRReference(sub.Route, vs.Namespace)
                     IN IF sub.Route # <<>> /\ HasKey(routeIndex, subKey)
                        THEN [k \in 1..Len(routeIndex[subKey].Spec.Subroutes) |->
                                Expand(routeIndex[subKey], routeIndex[subKey].Spec.Subroutes[k])]
                        ELSE <<Expand(vsr, sub)>>])
  IN IF route.Route = <<>>
     THEN [resolved |-> <<[Route |-> route,
                           Source |-> [Type |-> "VirtualServer", Namespace |-> vs.Namespace, Name |-> vs.Name],
                           VirtualServer |-> vs,
                           Upstreams |-> <<>>]>>,
           notifs |-> <<>>, err |-> Nil]
     ELSE IF ~HasKey(routeIndex, vsrKey)
     THEN [resolved |-> <<>>,
           notifs |-> addNotification("Warning", <<"VirtualServerRoute %s not found, skipping route", vsrKey>>, vs),
           err |-> Nil]
     ELSE [resolved |-> resolved,
           notifs |-> IF Len(resolved) > 0
                      THEN addNotification("Info",
                              <<"Resolved %d routes from VirtualServerRoute %s", Len(resolved), vsrKey>>, vs)
                      ELSE <<>>,
           err |-> Nil]

\* the resolver failing on a reference it does not find
resolveRouteFailing(routeIndex, route, vs) ==
  LET vsrKey == parseVSRReference(route.Route, vs.Namespace)
      vsr == routeIndex[vsrKey]
      resolved == [i \in 1..Len(vsr.Spec.Subroutes) |->
                     [Route |-> vsr.Spec.Subroutes[i],
                      Source |-> [Type |-> "VirtualServerRoute", Namespace |-> vsr.Namespace, Name |-> vsr.Name],
                      VirtualServer |-> vs,
                      Upstreams |-> vsr.Spec.Upstreams]]
  IN IF route.Route = <<>>
     THEN [resolved |-> <<[Route |-> route,
                           Source |-> [Type |-> "VirtualServer", Namespace |-> vs.Namespace, Name |-> vs.Name],
                           VirtualServer |-> vs,
                           Upstreams |-> <<>>]>>,
           notifs |-> <<>>, err |-> Nil]
     ELSE IF ~HasKey(routeIndex, vsrKey)
     THEN [resolved |-> <<>>, notifs |-> <<>>, err |-> Ptr(<<"VirtualServerRoute %s not found", vsrKey>>)]
     ELSE [resolved |-> resolved,
           notifs |-> IF Len(resolved) > 0
                      THEN addNotification("Info",
                              <<"Resolved %d routes from VirtualServerRoute %s", Len(resolved), vsrKey>>, vs)
                      ELSE <<>>,
           err |-> Nil]

\* the resolver leaving out the first sub-route of a fragment
resolveRouteFromSecond(routeIndex, route, vs) ==
  LET vsrKey == parseVSRReference(route.Route, vs.Namespace)
      vsr == routeIndex[vsrKey]
      resolved == [i \in 1..(Len(vsr.Spec.Subroutes) - 1) |->
                     [Route |-> vsr.Spec.Subroutes[i + 1],
                      Source |-> [Type |-> "VirtualServerRoute", Namespace |-> vsr.Namespace, Name |-> vsr.Name],
                      VirtualServer |-> vs,
                      Upstreams |-> vsr.Spec.Upstreams]]
  IN IF route.Route = <<>>
     THEN [resolved |-> <<[Route |-> route,
                           Source |-> [Type |-> "VirtualServer", Namespace |-> vs.Namespace, Name |-> vs.Name],
                           VirtualServer |-> vs,
                           Upstreams |-> <<>>]>>,
           notifs |-> <<>>, err |-> Nil]
     ELSE IF ~HasKey(routeIndex, vsrKey)
     THEN [resolved |-> <<>>,
           notifs |-> addNotification("Warning", <<"VirtualServerRoute %s not found, skipping route", vsrKey>>, vs),
           err |-> Nil]
     ELSE [resolved |-> resolved,
           notifs |-> IF Len(resolved) > 0
                      THEN addNotification("Info",
                              <<"Resolved %d routes from VirtualServerRoute %s", Len(resolved), vsrKey>>, vs)
                      ELSE <<>>,
           err |-> Nil]

\* resolveRoute: [resolved, notifs, err]
resolveRoute(routeIndex, route, vs) ==
  LET vsrKey == parseVSRReference(route.Route, vs.Namespace)
      vsr == routeIndex[vsrKey]
      resolved == [i \in 1..Len(vsr.Spec.Subroutes) |->
                     [Route |-> vsr.Spec.Subroutes[i],
                      Source |-> [Type |-> "VirtualServerRoute", Namespace |-> vsr.Namespace, Name |-> vsr.Name],
                      VirtualServer |-> vs,
                      Upstreams |-> vsr.Spec.Upstreams]]
  IN IF route.Route = <<>>
     THEN [resolved |-> <<[Route |-> route,
                           Source |-> [Type |-> "VirtualServer", Namespace |-> vs.Namespace, Name |-> vs.Name],
                           VirtualServer |-> vs,
                           Upstreams |-> <<>>]>>,
           notifs |-> <<>>, err |-> Nil]
     ELSE IF ~HasKey(routeIndex, vsrKey)
     THEN [resolved |-> <<>>,
           notifs |-> addNotification("Warning", <<"VirtualServerRoute %s not found, skipping route", vsrKey>>, vs),
           err |-> Nil]
     ELSE [resolved |-> resolved,
           notifs |-> IF Len(resolved) > 0
                      THEN addNotification("Info",
                              <<"Resolved %d routes from VirtualServerRoute %s", Len(resolved), vsrKey>>, vs)
                      ELSE <<>>,
           err |-> Nil]

RECURSIVE ResolveLoop(_, _, _)
ResolveLoop(routeIndex, routes, vs) ==
  IF routes = <<>> THEN [resolved |-> <<>>, notifs |-> <<>>, err |-> Nil]
  ELSE With(resolveRoute(routeIndex, Head(routes), vs), LAMBDA one :
         With(ResolveLoop(routeIndex, Tail(routes), vs), LAMBDA rest :
           IF one.err # Nil THEN [resolved |-> <<>>, notifs |-> <<>>, err |-> one.err]
           ELSE IF rest.err # Nil THEN [resolved |-> <<>>, notifs |-> one.notifs \o rest.notifs, err |-> rest.err]
           ELSE [resolved |-> one.resolved \o rest.resolved, notifs |-> one.notifs \o rest.notifs, err |-> Nil]))

ResolveRoutesForVirtualServer(routeIndex, vs) == ResolveLoop(routeIndex, vs.Spec.Routes, vs)

\* ------------------------------------------------- per-VirtualServer passes
RECURSIVE UpstreamConfigsLoop(_, _)
\* CRDsToGatewayIR, "process all upstreams and create config structs": [configs, notifs]
UpstreamConfigsLoop(upstreams, vs) ==
  IF upstreams = <<>> THEN [configs |-> EmptyMap, notifs |-> <<>>]
  ELSE LET last == upstreams[Len(upstreams)]
       IN With(UpstreamConfigsLoop(SubSeq(upstreams, 1, Len(upstreams) - 1), vs), LAMBDA before :
            With(validateUpstream(last, vs), LAMBDA valid :
              IF valid.ok
              THEN With(populateUpstreamConfig(last, vs), LAMBDA populated :
                     [configs |-> MapPut(before.configs, last.Name, populated.config),
                      notifs |-> before.notifs \o valid.notifs \o populated.notifs])
              ELSE [configs |-> before.configs, notifs |-> before.notifs \o valid.notifs]))

GenerateBackendTLSPolicyName(serviceName, suffix) ==
  IF suffix # <<>> THEN serviceName \o suffix \o <<"backend", "tls">>
  ELSE serviceName \o <<"backend", "tls">>

GeneratePolicyKey(namespace, name) == NamespacedName(namespace, name)

\* CreateBackendTLSPolicy: the policy, its validation hostname and CA fields left empty,
\* and the Warning added to the collector
CreateBackendTLSPolicy(name, namespace, serviceName, sourceLabel, vs) ==
  [policy |-> [Name |-> name, Namespace |-> namespace, Source |-> sourceLabel,
               TargetRefs |-> <<[Kind |-> "Service", Name |-> serviceName]>>,
               Validation |-> [Hostname |-> <<>>, CACertificateRefs |-> <<>>, WellKnownCACertificates |-> Nil]],
   notifs |-> addNotification("Warning",
                 <<"BackendTLSPolicy '%s' created but requires manual configuration", name>>, vs)]

RECURSIVE TLSPoliciesLoop(_, _)
\* the loop of processUpstreamTLSPolicies: [policies, notifs, collected]
TLSPoliciesLoop(upstreams, vs) ==
  IF upstreams = <<>> THEN [policies |-> EmptyMap, notifs |-> <<>>, collected |-> <<>>]
  ELSE LET last == upstreams[Len(upstreams)]
           policyName == GenerateBackendTLSPolicyName(last.Service, last.Name)
       IN With(TLSPoliciesLoop(SubSeq(upstreams, 1, Len(upstreams) - 1), vs), LAMBDA before :
            With(validateUpstream(last, vs), LAMBDA valid :
              IF ~valid.ok
              THEN [before EXCEPT !.notifs = @ \o valid.notifs]
              ELSE IF last.TLS.Enable
              THEN With(CreateBackendTLSPolicy(policyName, vs.Namespace, last.Service,
                                               "nginx-virtualserver-tls", vs),
                        LAMBDA created :
                          [policies |-> MapPut(before.policies, GeneratePolicyKey(vs.Namespace, policyName),
                                               created.policy),
                           notifs |-> before.notifs,
                           collected |-> before.collected \o created.notifs])
              ELSE before))

\* processUpstreamTLSPolicies dropping what the collector holds
processUpstreamTLSPoliciesUnmerged(vs) ==
  With(TLSPoliciesLoop(vs.Spec.Upstreams, vs), LAMBDA loop :
    [policies |-> loop.policies, notifs |-> loop.notifs])

\* processUpstreamTLSPolicies: the collector's notifications are merged after the loop
processUpstreamTLSPolicies(vs) ==
  With(TLSPoliciesLoop(vs.Spec.Upstreams, vs), LAMBDA loop :
    [policies |-> loop.policies, notifs |-> loop.notifs \o loop.collected])

\* the check of the unsupported fields without the one of internalRoute
checkUnsupportedVirtualServerFieldsSkippingOne(vs) ==
  (IF vs.Spec.Gunzip
   THEN addNotification("Warning", <<"VirtualServer field '%s' is not supported in Gateway API conversion", "gunzip">>, vs)
   ELSE <<>>) \o
  (IF vs.Spec.ExternalDNS.Enable
   THEN addNotification("Warning", <<"VirtualServer field '%s' is not supported in Gateway API conversion", "externalDNS">>, vs)
   ELSE <<>>) \o
  (IF vs.Spec.Dos # ""
   THEN addNotification("Warning", <<"VirtualServer field '%s' is not supported in Gateway API conversion", "dos">>, vs)
   ELSE <<>>) \o
  (IF Len(vs.Spec.Policies) > 0
   THEN addNotification("Warning", <<"VirtualServer field '%s' is not supported in Gateway API conversion", "policies",
                                     Len(vs.Spec.Policies)>>, vs)
   ELSE <<>>) \o
  (IF vs.Spec.HTTPSnippets # ""
   THEN addNotification("Warning", <<"VirtualServer field '%s' is not supported in Gateway API conversion", "http-snippets">>, vs)
   ELSE <<>>) \o
  (IF vs.Spec.ServerSnippets # ""
   THEN addNotification("Warning", <<"VirtualServer field '%s' is not supported in Gateway API conversion", "server-snippets">>, vs)
   ELSE <<>>)

checkUnsupportedVirtualServerFields(vs) ==
  (IF vs.Spec.Gunzip
   THEN addNotification("Warning", <<"VirtualServer field '%s' is not supported in Gateway API conversion", "gunzip">>, vs)
   ELSE <<>>) \o
  (IF vs.Spec.ExternalDNS.Enable
   THEN addNotification("Warning", <<"VirtualServer field '%s' is not supported in Gateway API conversion", "externalDNS">>, vs)
   ELSE <<>>) \o
  (IF vs.Spec.Dos # ""
   THEN addNotification("Warning", <<"VirtualServer field '%s' is not supported in Gateway API conversion", "dos">>, vs)
   ELSE <<>>) \o
  (IF Len(vs.Spec.Policies) > 0
   THEN addNotification("Warning", <<"VirtualServer field '%s' is not supported in Gateway API conversion", "policies",
                                     Len(vs.Spec.Policies)>>, vs)
   ELSE <<>>) \o
  (IF vs.Spec.InternalRoute
   THEN addNotification("Warning", <<"VirtualServer field '%s' is not supported in Gateway API conversion", "internalRoute">>, vs)
   ELSE <<>>) \o
  (IF vs.Spec.HTTPSnippets # ""
   THEN addNotification("Warning", <<"VirtualServer field '%s' is not supported in Gateway API conversion", "http-snippets">>, vs)
   ELSE <<>>) \o
  (IF vs.Spec.ServerSnippets # ""
   THEN addNotification("Warning", <<"VirtualServer field '%s' is not supported in Gateway API conversion", "server-snippets">>, vs)
   ELSE <<>>)

\* a host is the list of its labels; in a listener name the labels are joined by "-"
sanitizeHostname(host) == host

\* listenerMap[name].Port, the zero value for a name the map does not hold
ListenerPort(listenerMap, name) == IF HasKey(listenerMap, name) THEN listenerMap[name].Port ELSE 0

createRedirectHTTPRoute(vs, listenerMap) ==
  LET port == IF vs.Spec.Listener # Nil /\ Deref(vs.Spec.Listener).HTTP # ""
              THEN ListenerPort(listenerMap, Deref(vs.Spec.Listener).HTTP)
              ELSE 80
  IN [Name |-> vs.Name \o <<"redirect">>,
      Namespace |-> vs.Namespace,
      VSName |-> vs.Name,
      ParentRefs |-> <<[Name |-> vs.Namespace \o <<"gateway">>,
                        SectionName |-> <<"http", port>> \o sanitizeHostname(vs.Spec.Host)]>>,
      Hostnames |-> <<>>,
      Rules |-> <<[Matches |-> <<[Path |-> [Type |-> "PathPrefix", Value |-> <<"/">>],
                                  Headers |-> <<>>, QueryParams |-> <<>>]>>,
                   Filters |-> <<[Type |-> "RequestRedirect",
                                  StatusCode |-> Deref(Deref(vs.Spec.TLS).Redirect).Code]>>,
                   BackendRefs |-> <<>>]>>]

TLSRedirectEnabled(vs) ==
  /\ vs.Spec.TLS # Nil
  /\ Deref(vs.Spec.TLS).Redirect # Nil
  /\ Deref(Deref(vs.Spec.TLS).Redirect).Enable

\* createParentRefs of the route converter
createParentRefs(vs, virtualServerMap) ==
  LET listeners == IF HasKey(virtualServerMap, vs.Name) THEN virtualServerMap[vs.Name] ELSE <<>>
  IN [i \in 1..Len(listeners) |->
        [Name |-> listeners[i].gatewayName, SectionName |-> listeners[i].listenerName]]

\* createHTTPRoute: [route, key, notifs]
createHTTPRoute(vs, virtualServerMap, rs) ==
  [route |-> [Name |-> vs.Name \o <<"httproute">>, Namespace |-> vs.Namespace, VSName |-> vs.Name,
              ParentRefs |-> createParentRefs(vs, virtualServerMap),
              Hostnames |-> <<vs.Spec.Host>>,
              Rules |-> rs],
   key |-> NamespacedName(vs.Namespace, vs.Name \o <<"httproute">>),
   notifs |-> addNotification("Info", <<"Created HTTPRoute '%s' with %d HTTP rules for host '%s'",
                                        vs.Name \o <<"httproute">>, Len(rs), vs.Spec.Host>>, vs)]

\* createGRPCRoute attaching the route to no Gateway
createGRPCRouteDetached(vs, virtualServerMap, rs) ==
  [route |-> [Name |-> vs.Name \o <<"grpcroute">>, Namespace |-> vs.Namespace, VSName |-> vs.Name,
              ParentRefs |-> <<>>,
              Hostnames |-> <<vs.Spec.Host>>,
              Rules |-> rs],
   key |-> NamespacedName(vs.Namespace, vs.Name \o <<"grpcroute">>),
   notifs |-> addNotification("Info", <<"Created GRPCRoute '%s' with %d gRPC rules for host '%s'",
                                        vs.Name \o <<"grpcroute">>, Len(rs), vs.Spec.Host>>, vs)]

\* createGRPCRoute: [route, key, notifs]
createGRPCRoute(vs, virtualServerMap, rs) ==
  [route |-> [Name |-> vs.Name \o <<"grpcroute">>, Namespace |-> vs.Namespace, VSName |-> vs.Name,
              ParentRefs |-> createParentRefs(vs, virtualServerMap),
              Hostnames |-> <<vs.Spec.Host>>,
              Rules |-> rs],
   key |-> NamespacedName(vs.Namespace, vs.Name \o <<"grpcroute">>),
   notifs |-> addNotification("Info", <<"Created GRPCRoute '%s' with %d gRPC rules for host '%s'",
                                        vs.Name \o <<"grpcroute">>, Len(rs), vs.Spec.Host>>, vs)]

\* ------------------------------------------------------------------ gateway
\* The namespace gateway factory: one Gateway named <namespace>-gateway that
\* holds, for every VirtualServer, an HTTP listener on port 80 (an HTTPS listener
\* on port 443 as well when TLS is configured), and the listener of every
\* TransportServer that names one of the configured listeners.
VSListeners(vs) ==
  <<[Name |-> <<"http", 80>> \o sanitizeHostname(vs.Spec.Host), Port |-> 80, Protocol |-> "HTTP",
     Hostname |-> vs.Spec.Host, TLS |-> Nil]>> \o
  (IF vs.Spec.TLS # Nil
   THEN <<[Name |-> <<"https", 443>> \o sanitizeHostname(vs.Spec.Host) \o Deref(vs.Spec.TLS).Secret,
           Port |-> 443, Protocol |-> "HTTPS", Hostname |-> vs.Spec.Host,
           TLS |-> Ptr([Mode |-> "Terminate", CertificateRef |-> Deref(vs.Spec.TLS).Secret])]>>
   ELSE <<>>)

TSListeners(ts, listenerMap) ==
  IF HasKey(listenerMap, ts.Spec.Listener.Name)
  THEN <<[Name |-> <<ts.Spec.Listener.Name>>, Port |-> listenerMap[ts.Spec.Listener.Name].Port,
          Protocol |-> listenerMap[ts.Spec.Listener.Name].Protocol, Hostname |-> ts.Spec.Host, TLS |-> Nil]>>
  ELSE <<>>

getGatewayClassName(vsList) ==
  IF Len(vsList) > 0 /\ vsList[1].Spec.IngressClass # "" THEN vsList[1].Spec.IngressClass ELSE "nginx"

\* CreateNamespaceGateway: [gateways, virtualServerMap]
CreateNamespaceGateway(namespace, vsList, tsList, listenerMap) ==
  LET gatewayName == namespace \o <<"gateway">>
      vsNames == {vsList[i].Name : i \in 1..Len(vsList)}
      lastOf(name) == vsList[CHOOSE i \in 1..Len(vsList) :
                                /\ vsList[i].Name = name
                                /\ \A j \in 1..Len(vsList) : vsList[j].Name = name => j <= i]
      keyOf(vs) == LET ls == VSListeners(vs)
                   IN <<[gatewayName |-> gatewayName, listenerName |-> ls[Len(ls)].Name]>>
  IN [gateways |-> (NamespacedName(namespace, gatewayName) :>
                      [Name |-> gatewayName, Namespace |-> namespace,
                       GatewayClassName |-> getGatewayClassName(vsList),
                       Listeners |-> Flatten([i \in 1..Len(vsList) |-> VSListeners(vsList[i])]) \o
                                     Flatten([i \in 1..Len(tsList) |-> TSListeners(tsList[i], listenerMap)])]),
      virtualServerMap |-> [name \in vsNames |-> keyOf(lastOf(name))]]

\* ---------------------------------------------------------- TransportServer
\* getProtocolType: [protocol, notifs]
getProtocolType(ts) ==
  IF ts.Spec.Listener.Protocol = ""
  THEN [protocol |-> "",
        notifs |-> <<Notification("Error", <<"TransportServer '%s' has no listener protocol configured", ts.Name>>,
                                  NoObject)>>]
  ELSE [protocol |-> ts.Spec.Listener.Protocol, notifs |-> <<>>]

\* getListenerPort: [port, notifs]
getListenerPort(ts, listenerMap) ==
  LET name == ts.Spec.Listener.Name
  IN IF name = ""
     THEN [port |-> 80,
           notifs |-> <<Notification("Error", <<"TransportServer '%s' has no listener name configured", ts.Name>>,
                                     NoObject)>>]
     ELSE IF HasKey(listenerMap, name) THEN [port |-> listenerMap[name].Port, notifs |-> <<>>]
     ELSE IF name = "tls-passthrough" THEN [port |-> 443, notifs |-> <<>>]
     ELSE With(getProtocolType(ts), LAMBDA p :
            [port |-> IF p.protocol = "UDP" THEN 53 ELSE 80, notifs |-> p.notifs])

\* strings.ToLower of a protocol, "tls_passthrough" shortened to "tls"
ListenerProtocolName(protocol) ==
  IF protocol = "TCP" THEN "tcp"
  ELSE IF protocol = "UDP" THEN "udp"
  ELSE IF protocol = "TLS_PASSTHROUGH" THEN "tls"
  ELSE protocol

\* generateListenerName: [name, notifs]
generateListenerName(ts, listenerMap) ==
  With(getProtocolType(ts), LAMBDA p :
    With(getListenerPort(ts, listenerMap), LAMBDA port :
      [name |-> <<ListenerProtocolName(p.protocol), port.port>> \o
                (IF ts.Spec.Host # <<>> THEN sanitizeHostname(ts.Spec.Host) ELSE <<>>),
       notifs |-> p.notifs \o port.notifs]))

\* createParentRefs of the TransportServer converter: [refs, notifs]
createTSParentRefs(ts, listenerMap) ==
  With(generateListenerName(ts, listenerMap), LAMBDA l :
    [refs |-> <<[Name |-> ts.Namespace \o <<"gateway">>, SectionName |-> l.name]>>, notifs |-> l.notifs])

\* createBackendRefs falling back to the first upstream of the list
createBackendRefsFirstUpstream(ts) ==
  LET upstreamName == Deref(ts.Spec.Action).Pass
      targetUpstream == findUpstream(ts.Spec.Upstreams, upstreamName)
  IN IF ts.Spec.Action = Nil \/ Deref(ts.Spec.Action).Pass = <<>>
     THEN [refs |-> <<>>,
           notifs |-> <<Notification("Warning", <<"TransportServer '%s' has no action.pass configured", ts.Name>>,
                                     NoObject)>>]
     ELSE IF targetUpstream = Nil
     THEN [refs |-> <<[Name |-> ts.Spec.Upstreams[1].Service, Namespace |-> ts.Namespace,
                       Port |-> ts.Spec.Upstreams[1].Port, Kind |-> "Service"]>>,
           notifs |-> <<Notification("Error", <<"Upstream '%s' not found in TransportServer '%s'",
                                                upstreamName, ts.Name>>, NoObject)>>]
     ELSE [refs |-> <<[Name |-> Deref(targetUpstream).Service, Namespace |-> ts.Namespace,
                       Port |-> Deref(targetUpstream).Port, Kind |-> "Service"]>>,
           notifs |-> <<>>]

\* createBackendRefs: [refs, notifs]
createBackendRefs(ts) ==
  LET upstreamName == Deref(ts.Spec.Action).Pass
      targetUpstream == findUpstream(ts.Spec.Upstreams, upstreamName)
  IN IF ts.Spec.Action = Nil \/ Deref(ts.Spec.Action).Pass = <<>>
     THEN [refs |-> <<>>,
           notifs |-> <<Notification("Warning", <<"TransportServer '%s' has no action.pass configured", ts.Name>>,
                                     NoObject)>>]
     ELSE IF targetUpstream = Nil
     THEN [refs |-> <<>>,
           notifs |-> <<Notification("Error", <<"Upstream '%s' not found in TransportServer '%s'",
                                                upstreamName, ts.Name>>, NoObject)>>]
     ELSE [refs |-> <<[Name |-> Deref(targetUpstream).Service, Namespace |-> ts.Namespace,
                       Port |-> Deref(targetUpstream).Port, Kind |-> "Service"]>>,
           notifs |-> <<>>]

\* createTCPRoute, createTLSRoute and createUDPRoute: [route, key, notifs]
createL4Route(ts, listenerMap, kind, suffix) ==
  LET routeName == ts.Name \o <<suffix>>
  IN With(createTSParentRefs(ts, listenerMap), LAMBDA parents :
       With(createBackendRefs(ts), LAMBDA backends :
         [route |-> [Kind |-> kind, Name |-> routeName, Namespace |-> ts.Namespace, TSName |-> ts.Name,
                     ParentRefs |-> parents.refs,
                     Rules |-> <<[BackendRefs |-> backends.refs]>>,
                     Hostnames |-> IF kind = "TLSRoute" /\ ts.Spec.Host # <<>> THEN <<ts.Spec.Host>> ELSE <<>>],
          key |-> NamespacedName(ts.Namespace, routeName),
          notifs |-> parents.notifs \o backends.notifs \o
                     <<Notification("Info", <<"Created %s '%s' for TransportServer '%s'", kind, routeName, ts.Name>>,
                                    NoObject)>>]))

\* ConvertToRoutes making a TCPRoute for a protocol it does not know
ConvertTransportServerToRoutesDefaulting(ts, listenerMap) ==
  With(getProtocolType(ts), LAMBDA p :
    IF p.protocol = "TLS_PASSTHROUGH"
    THEN With(createL4Route(ts, listenerMap, "TLSRoute", "tlsroute"), LAMBDA tls :
           [tcpRoutes |-> EmptyMap, tlsRoutes |-> (tls.key :> tls.route), udpRoutes |-> EmptyMap,
            notifs |-> p.notifs \o tls.notifs])
    ELSE IF p.protocol = "UDP"
    THEN With(createL4Route(ts, listenerMap, "UDPRoute", "udproute"), LAMBDA udp :
           [tcpRoutes |-> EmptyMap, tlsRoutes |-> EmptyMap, udpRoutes |-> (udp.key :> udp.route),
            notifs |-> p.notifs \o udp.notifs])
    ELSE With(createL4Route(ts, listenerMap, "TCPRoute", "tcproute"), LAMBDA tcp :
           [tcpRoutes |-> (tcp.key :> tcp.route), tlsRoutes |-> EmptyMap, udpRoutes |-> EmptyMap,
            notifs |-> p.notifs \o tcp.notifs]))

\* TransportServerConverter.ConvertToRoutes: [tcpRoutes, tlsRoutes, udpRoutes, notifs]
ConvertTransportServerToRoutes(ts, listenerMap) ==
  With(getProtocolType(ts), LAMBDA p :
    IF p.protocol = "TCP"
    THEN With(createL4Route(ts, listenerMap, "TCPRoute", "tcproute"), LAMBDA tcp :
           [tcpRoutes |-> (tcp.key :> tcp.route), tlsRoutes |-> EmptyMap, udpRoutes |-> EmptyMap,
            notifs |-> p.notifs \o tcp.notifs])
    ELSE IF p.protocol = "TLS_PASSTHROUGH"
    THEN With(createL4Route(ts, listenerMap, "TLSRoute", "tlsroute"), LAMBDA tls :
           [tcpRoutes |-> EmptyMap, tlsRoutes |-> (tls.key :> tls.route), udpRoutes |-> EmptyMap,
            notifs |-> p.notifs \o tls.notifs])
    ELSE IF p.protocol = "UDP"
    THEN With(createL4Route(ts, listenerMap, "UDPRoute", "udproute"), LAMBDA udp :
           [tcpRoutes |-> EmptyMap, tlsRoutes |-> EmptyMap, udpRoutes |-> (udp.key :> udp.route),
            notifs |-> p.notifs \o udp.notifs])
    ELSE [tcpRoutes |-> EmptyMap, tlsRoutes |-> EmptyMap, udpRoutes |-> EmptyMap,
          notifs |-> p.notifs \o
                     <<Notification("Error", <<"Unsupported protocol '%s' in TransportServer '%s'",
                                               p.protocol, ts.Name>>, NoObject)>>])

\* --------------------------------------------------------------------- state
VARIABLES
  virtualServers,        \* input: the VirtualServers
  virtualServerRoutes,   \* input: the VirtualServerRoutes
  transportServers,      \* input: the TransportServers
  globalConfiguration,   \* input: pointer to the GlobalConfiguration
  pc,                    \* position of the conversion run
  run,                   \* 1 in the first call of CRDsToGatewayIR, 2 in a repeated call
  firstResult,           \* what the first call returned, once a second call has started
  result,                \* what the call returned: [ir, notificationList, errs]
  notificationList, errs,
  validVirtualServers, listenerMap,
  pendingNamespaces,     \* the keys of allNamespaces the range loop has not yet visited
  namespace, vsListForNamespace, tsListForNamespace, vsIdx, tsIdx,
  virtualServerMap,
  upstreamConfigs, resolvedRoutes, rules, httpRules, grpcRules,
  gatewayMap, httpRouteMap, backendTLSPoliciesMap, grpcRouteMap,
  tcpRouteMap, tlsRouteMap, udpRouteMap,
  ingress,               \* input of BackendProtocolFeature: the Ingress
  irAtCall,              \* the IR as it was passed to BackendProtocolFeature
  ingressIR,             \* the IR that BackendProtocolFeature works on
  grpcServiceSet,        \* the services that the grpc-services annotation lists
  ruleIdx,               \* the position of the loop over ingress.Spec.Rules
  annotationPC           \* position of BackendProtocolFeature

annotationVars == <<ingress, irAtCall, ingressIR, grpcServiceSet, ruleIdx, annotationPC>>
inputVars == <<virtualServers, virtualServerRoutes, transportServers, globalConfiguration>>
callVars == <<run, firstResult, result>>
loopVars == <<validVirtualServers, listenerMap, pendingNamespaces, namespace, vsListForNamespace,
              tsListForNamespace, vsIdx, tsIdx, virtualServerMap>>
converterVars == <<upstreamConfigs, resolvedRoutes, rules, httpRules, grpcRules>>
l7Vars == <<httpRouteMap, backendTLSPoliciesMap, grpcRouteMap>>
l4Vars == <<tcpRouteMap, tlsRouteMap, udpRouteMap>>
vars == <<inputVars, callVars, pc, notificationList, errs, loopVars, converterVars, gatewayMap, l7Vars, l4Vars,
          annotationVars>>

NoNamespace == <<>>

\* the state of a call before its first statement
Entry ==
  /\ pc = "start"
  /\ result = Nil
  /\ notificationList = <<>>
  /\ errs = <<>>
  /\ validVirtualServers = <<>>
  /\ listenerMap = EmptyMap
  /\ pendingNamespaces = {}
  /\ namespace = NoNamespace
  /\ vsListForNamespace = <<>>
  /\ tsListForNamespace = <<>>
  /\ vsIdx = 1
  /\ tsIdx = 1
  /\ virtualServerMap = EmptyMap
  /\ upstreamConfigs = EmptyMap
  /\ resolvedRoutes = <<>>
  /\ rules = <<>>
  /\ httpRules = <<>>
  /\ grpcRules = <<>>
  /\ gatewayMap = EmptyMap
  /\ httpRouteMap = EmptyMap
  /\ backendTLSPoliciesMap = EmptyMap
  /\ grpcRouteMap = EmptyMap
  /\ tcpRouteMap = EmptyMap
  /\ tlsRouteMap = EmptyMap
  /\ udpRouteMap = EmptyMap

IR == [Gateways |-> gatewayMap, HTTPRoutes |-> httpRouteMap, BackendTLSPolicies |-> backendTLSPoliciesMap,
       GRPCRoutes |-> grpcRouteMap, TCPRoutes |-> tcpRouteMap, TLSRoutes |-> tlsRouteMap,
       UDPRoutes |-> udpRouteMap]

EmptyIR == [Gateways |-> EmptyMap, HTTPRoutes |-> EmptyMap, BackendTLSPolicies |-> EmptyMap,
            GRPCRoutes |-> EmptyMap, TCPRoutes |-> EmptyMap, TLSRoutes |-> EmptyMap, UDPRoutes |-> EmptyMap]

\* the VirtualServer the loop over vsListForNamespace is at
currentVS == vsListForNamespace[vsIdx]

\* the TransportServer the loop over tsListForNamespace is at
currentTS == tsListForNamespace[tsIdx]

RECURSIVE HostLoopAbort(_)
\* the host check giving up at the first VirtualServer without a host
HostLoopAbort(vss) ==
  IF vss = <<>> THEN [valid |-> <<>>, notifs |-> <<>>]
  ELSE IF Head(vss).Spec.Host = <<>>
  THEN [valid |-> <<>>,
        notifs |-> addNotification("Warning", <<"VirtualServer has no host specified, skipping">>, Head(vss))]
  ELSE With(HostLoopAbort(Tail(vss)), LAMBDA rest :
         [valid |-> <<Head(vss)>> \o rest.valid, notifs |-> rest.notifs])

RECURSIVE HostLoopKeeping(_)
\* the host check warning about a VirtualServer without a host and keeping it
HostLoopKeeping(vss) ==
  IF vss = <<>> THEN [valid |-> <<>>, notifs |-> <<>>]
  ELSE With(HostLoopKeeping(Tail(vss)), LAMBDA rest :
         IF Head(vss).Spec.Host = <<>>
         THEN [valid |-> <<Head(vss)>> \o rest.valid,
               notifs |-> addNotification("Warning", <<"VirtualServer has no host specified, skipping">>, Head(vss))
                          \o rest.notifs]
         ELSE [valid |-> <<Head(vss)>> \o rest.valid, notifs |-> rest.notifs])

RECURSIVE HostLoop(_)
\* the host check of CRDsToGatewayIR: [valid, notifs]
HostLoop(vss) ==
  IF vss = <<>> THEN [valid |-> <<>>, notifs |-> <<>>]
  ELSE LET rest == HostLoop(Tail(vss))
       IN IF Head(vss).Spec.Host = <<>>
          THEN [valid |-> rest.valid,
                notifs |-> addNotification("Warning", <<"VirtualServer has no host specified, skipping">>, Head(vss))
                           \o rest.notifs]
          ELSE [valid |-> <<Head(vss)>> \o rest.valid, notifs |-> rest.notifs]

\* the listener map built from the GlobalConfiguration
BuildListenerMap(gc) ==
  IF gc = Nil THEN EmptyMap
  ELSE LET ls == Deref(gc).Spec.Listeners
           lastAt(name) == CHOOSE i \in 1..Len(ls) :
                              ls[i].Name = name /\ \A j \in 1..Len(ls) : ls[j].Name = name => j <= i
       IN [name \in {ls[i].Name : i \in 1..Len(ls)} |->
             [Name |-> name, Port |-> ls[lastAt(name)].Port, Protocol |-> ls[lastAt(name)].Protocol]]

\* namespaceVSMap[ns] / namespaceTSMap[ns]: the resources of a namespace, in input order
InNamespace(xs, ns) == SelectIdx(xs, [i \in 1..Len(xs) |-> xs[i].Namespace = ns], 1)

\* lines 46-58: drop the VirtualServers without a host
ValidateVirtualServers ==
  /\ pc = "start"
  /\ \E checked \in {HostLoop(virtualServers)} :
        /\ validVirtualServers' = checked.valid
        /\ notificationList' = notificationList \o checked.notifs
  /\ pc' = "validated"
  /\ UNCHANGED <<annotationVars, inputVars, callVars, errs, listenerMap, pendingNamespaces, namespace, vsListForNamespace,
                 tsListForNamespace, vsIdx, tsIdx, virtualServerMap, converterVars, gatewayMap, l7Vars, l4Vars>>

\* lines 60-63: nothing to process
ReturnEmpty ==
  /\ pc = "validated"
  /\ Len(validVirtualServers) = 0 /\ Len(transportServers) = 0
  /\ result' = Ptr([ir |-> EmptyIR, notificationList |-> notificationList, errs |-> errs])
  /\ pc' = "done"
  /\ UNCHANGED <<annotationVars, inputVars, run, firstResult, notificationList, errs, loopVars, converterVars, gatewayMap,
                 l7Vars, l4Vars>>

\* the grouping that takes the namespaces of the VirtualServers only
GroupByNamespaceOfVirtualServers ==
  /\ pc = "validated"
  /\ ~(Len(validVirtualServers) = 0 /\ Len(transportServers) = 0)
  /\ listenerMap' = BuildListenerMap(globalConfiguration)
  /\ pendingNamespaces' = {validVirtualServers[i].Namespace : i \in 1..Len(validVirtualServers)}
  /\ pc' = "namespaces"
  /\ UNCHANGED <<annotationVars, inputVars, callVars, notificationList, errs, validVirtualServers, namespace,
                 vsListForNamespace, tsListForNamespace, vsIdx, tsIdx, virtualServerMap, converterVars,
                 gatewayMap, l7Vars, l4Vars>>

\* lines 65-104: group by namespace, build the listener map and the namespace set
GroupByNamespace ==
  /\ pc = "validated"
  /\ ~(Len(validVirtualServers) = 0 /\ Len(transportServers) = 0)
  /\ listenerMap' = BuildListenerMap(globalConfiguration)
  /\ pendingNamespaces' = {validVirtualServers[i].Namespace : i \in 1..Len(validVirtualServers)} \cup
                          {transportServers[i].Namespace : i \in 1..Len(transportServers)}
  /\ pc' = "namespaces"
  /\ UNCHANGED <<annotationVars, inputVars, callVars, notificationList, errs, validVirtualServers, namespace,
                 vsListForNamespace, tsListForNamespace, vsIdx, tsIdx, virtualServerMap, converterVars,
                 gatewayMap, l7Vars, l4Vars>>

\* lines 106-116: the range loop over the allNamespaces map yields its keys in an
\* order the Go runtime chooses; the namespace's Gateway is created
NextNamespace ==
  /\ pc = "namespaces"
  /\ vsIdx > Len(vsListForNamespace) /\ tsIdx > Len(tsListForNamespace)
  /\ \E ns \in pendingNamespaces :
       \E made \in {CreateNamespaceGateway(ns, InNamespace(validVirtualServers, ns),
                                           InNamespace(transportServers, ns), listenerMap)} :
          /\ namespace' = ns
          /\ pendingNamespaces' = pendingNamespaces \ {ns}
          /\ vsListForNamespace' = InNamespace(validVirtualServers, ns)
          /\ tsListForNamespace' = InNamespace(transportServers, ns)
          /\ virtualServerMap' = made.virtualServerMap
          /\ gatewayMap' = MapCopy(gatewayMap, made.gateways)
  /\ vsIdx' = 1
  /\ tsIdx' = 1
  /\ UNCHANGED <<annotationVars, inputVars, callVars, pc, notificationList, errs, validVirtualServers, listenerMap,
                 converterVars, l7Vars, l4Vars>>

\* lines 119-134: unsupported fields, the TLS redirect route, the upstream configs
PrepareVirtualServer ==
  /\ pc = "namespaces"
  /\ vsIdx <= Len(vsListForNamespace)
  /\ \E configs \in {UpstreamConfigsLoop(currentVS.Spec.Upstreams, currentVS)} :
        /\ notificationList' = notificationList \o checkUnsupportedVirtualServerFields(currentVS) \o configs.notifs
        /\ upstreamConfigs' = configs.configs
  /\ httpRouteMap' = IF TLSRedirectEnabled(currentVS)
                     THEN MapPut(httpRouteMap,
                                 NamespacedName(currentVS.Namespace, currentVS.Name \o <<"redirect">>),
                                 createRedirectHTTPRoute(currentVS, listenerMap))
                     ELSE httpRouteMap
  /\ resolvedRoutes' = <<>>
  /\ rules' = <<>>
  /\ httpRules' = <<>>
  /\ grpcRules' = <<>>
  /\ pc' = "resolve"
  /\ UNCHANGED <<annotationVars, inputVars, callVars, errs, loopVars, gatewayMap, backendTLSPoliciesMap, grpcRouteMap, l4Vars>>

\* ConvertToRoutes, lines 61-67: resolve the routes of the VirtualServer; on an
\* error the converter reports it and returns its two empty maps
ResolveRoutes ==
  /\ pc = "resolve"
  /\ \E r \in {ResolveRoutesForVirtualServer(RouteIndex(virtualServerRoutes), currentVS)} :
        IF r.err # Nil
        THEN /\ resolvedRoutes' = <<>>
             /\ notificationList' = notificationList \o
                   addNotification("Error", <<"Failed to resolve routes for VirtualServer %s: %v",
                                              currentVS.Name, Deref(r.err)>>, currentVS)
             /\ pc' = "tls"
        ELSE /\ resolvedRoutes' = r.resolved
             /\ notificationList' = notificationList \o r.notifs
             /\ pc' = "rules"
  /\ UNCHANGED <<annotationVars, inputVars, callVars, errs, loopVars, upstreamConfigs, rules, httpRules, grpcRules,
                 gatewayMap, l7Vars, l4Vars>>

\* ConvertToRoutes, lines 69-73: the rules of every resolved route, appended in order
BuildRules ==
  /\ pc = "rules"
  /\ \E built \in {RulesLoop(resolvedRoutes, 1)} :
        /\ rules' = built.rules
        /\ notificationList' = notificationList \o built.notifs
  /\ pc' = "partition"
  /\ UNCHANGED <<annotationVars, inputVars, callVars, errs, loopVars, upstreamConfigs, resolvedRoutes, httpRules, grpcRules,
                 gatewayMap, l7Vars, l4Vars>>

\* ConvertToRoutes, lines 75-85: separate the gRPC rules from the HTTP rules
PartitionRules ==
  /\ pc = "partition"
  /\ \E parts \in {PartitionLoop(rules, upstreamConfigs, currentVS)} :
        /\ httpRules' = parts.httpRules
        /\ grpcRules' = parts.grpcRules
        /\ notificationList' = notificationList \o parts.notifs
  /\ pc' = "rewrite"
  /\ UNCHANGED <<annotationVars, inputVars, callVars, errs, loopVars, upstreamConfigs, resolvedRoutes, rules,
                 gatewayMap, l7Vars, l4Vars>>

\* ConvertToRoutes, lines 87-89: upstream names become service names
RewriteNames ==
  /\ pc = "rewrite"
  /\ httpRules' = convertUpstreamNamesToServiceNames(httpRules, upstreamConfigs)
  /\ grpcRules' = convertUpstreamNamesToServiceNames(grpcRules, upstreamConfigs)
  /\ pc' = "emit"
  /\ UNCHANGED <<annotationVars, inputVars, callVars, notificationList, errs, loopVars, upstreamConfigs, resolvedRoutes, rules,
                 gatewayMap, l7Vars, l4Vars>>

\* ConvertToRoutes, lines 91-100, and CRDsToGatewayIR, lines 140-148
EmitRoutes ==
  /\ pc = "emit"
  /\ \E h \in {createHTTPRoute(currentVS, virtualServerMap, httpRules)},
        g \in {createGRPCRoute(currentVS, virtualServerMap, grpcRules)} :
        /\ httpRouteMap' = IF Len(httpRules) > 0 THEN MapPut(httpRouteMap, h.key, h.route) ELSE httpRouteMap
        /\ grpcRouteMap' = IF Len(grpcRules) > 0 THEN MapPut(grpcRouteMap, g.key, g.route) ELSE grpcRouteMap
        /\ notificationList' = notificationList \o (IF Len(httpRules) > 0 THEN h.notifs ELSE <<>>)
                                                \o (IF Len(grpcRules) > 0 THEN g.notifs ELSE <<>>)
  /\ pc' = "tls"
  /\ UNCHANGED <<annotationVars, inputVars, callVars, errs, loopVars, converterVars, gatewayMap, backendTLSPoliciesMap, l4Vars>>

\* lines 150-155: the BackendTLSPolicies of the VirtualServer's upstreams
ProcessUpstreamTLSPolicies ==
  /\ pc = "tls"
  /\ \E p \in {processUpstreamTLSPolicies(currentVS)} :
        /\ backendTLSPoliciesMap' = MapCopy(backendTLSPoliciesMap, p.policies)
        /\ notificationList' = notificationList \o p.notifs
  /\ vsIdx' = vsIdx + 1
  /\ pc' = "namespaces"
  /\ UNCHANGED <<annotationVars, inputVars, callVars, errs, validVirtualServers, listenerMap, pendingNamespaces, namespace,
                 vsListForNamespace, tsListForNamespace, tsIdx, virtualServerMap, converterVars, gatewayMap,
                 httpRouteMap, grpcRouteMap, l4Vars>>

\* the loop over the TransportServers ended by the first one that is skipped
ConvertTransportServerBreaking ==
  /\ pc = "namespaces"
  /\ vsIdx > Len(vsListForNamespace)
  /\ tsIdx <= Len(tsListForNamespace)
  /\ LET ts == currentTS
     IN IF ts.Spec.Listener.Name = "" \/ ts.Spec.Listener.Protocol = ""
        THEN /\ notificationList' = Append(notificationList,
                   Notification("Warning",
                     <<"TransportServer '%s' skipped: listener field is required but not specified", ts.Name>>,
                     NoObject))
             /\ UNCHANGED l4Vars
             /\ tsIdx' = Len(tsListForNamespace) + 1
        ELSE IF ~HasKey(listenerMap, ts.Spec.Listener.Name)
        THEN /\ notificationList' = Append(notificationList,
                   Notification("Warning",
                     <<"TransportServer '%s' skipped: listener '%s' not found in GlobalConfiguration",
                       ts.Name, ts.Spec.Listener.Name>>,
                     NoObject))
             /\ UNCHANGED l4Vars
             /\ tsIdx' = Len(tsListForNamespace) + 1
        ELSE \E converted \in {ConvertTransportServerToRoutes(ts, listenerMap)} :
               /\ notificationList' = notificationList \o converted.notifs
               /\ tcpRouteMap' = MapCopy(tcpRouteMap, converted.tcpRoutes)
               /\ tlsRouteMap' = MapCopy(tlsRouteMap, converted.tlsRoutes)
               /\ udpRouteMap' = MapCopy(udpRouteMap, converted.udpRoutes)
               /\ tsIdx' = tsIdx + 1
  /\ UNCHANGED <<annotationVars, inputVars, callVars, pc, errs, validVirtualServers, listenerMap, pendingNamespaces, namespace,
                 vsListForNamespace, tsListForNamespace, vsIdx, virtualServerMap, converterVars, gatewayMap,
                 l7Vars>>

\* lines 158-183: one TransportServer of the namespace
ConvertTransportServer ==
  /\ pc = "namespaces"
  /\ vsIdx > Len(vsListForNamespace)
  /\ tsIdx <= Len(tsListForNamespace)
  /\ LET ts == currentTS
     IN IF ts.Spec.Listener.Name = "" \/ ts.Spec.Listener.Protocol = ""
        THEN /\ notificationList' = Append(notificationList,
                   Notification("Warning",
                     <<"TransportServer '%s' skipped: listener field is required but not specified", ts.Name>>,
                     NoObject))
             /\ UNCHANGED l4Vars
        ELSE IF ~HasKey(listenerMap, ts.Spec.Listener.Name)
        THEN /\ notificationList' = Append(notificationList,
                   Notification("Warning",
                     <<"TransportServer '%s' skipped: listener '%s' not found in GlobalConfiguration",
                       ts.Name, ts.Spec.Listener.Name>>,
                     NoObject))
             /\ UNCHANGED l4Vars
        ELSE \E converted \in {ConvertTransportServerToRoutes(ts, listenerMap)} :
               /\ notificationList' = notificationList \o converted.notifs
               /\ tcpRouteMap' = MapCopy(tcpRouteMap, converted.tcpRoutes)
               /\ tlsRouteMap' = MapCopy(tlsRouteMap, converted.tlsRoutes)
               /\ udpRouteMap' = MapCopy(udpRouteMap, converted.udpRoutes)
  /\ tsIdx' = tsIdx + 1
  /\ UNCHANGED <<annotationVars, inputVars, callVars, pc, errs, validVirtualServers, listenerMap, pendingNamespaces, namespace,
                 vsListForNamespace, tsListForNamespace, vsIdx, virtualServerMap, converterVars, gatewayMap,
                 l7Vars>>

\* lines 186-194: every namespace was visited
Return ==
  /\ pc = "namespaces"
  /\ vsIdx > Len(vsListForNamespace) /\ tsIdx > Len(tsListForNamespace)
  /\ pendingNamespaces = {}
  /\ result' = Ptr([ir |-> IR, notificationList |-> notificationList, errs |-> errs])
  /\ pc' = "done"
  /\ UNCHANGED <<annotationVars, inputVars, run, firstResult, notificationList, errs, loopVars, converterVars, gatewayMap,
                 l7Vars, l4Vars>>

\* the caller converts the same input a second time
Rerun ==
  /\ pc = "done"
  /\ run = 1
  /\ run' = 2
  /\ firstResult' = result
  /\ pc' = "start"
  /\ result' = Nil
  /\ notificationList' = <<>>
  /\ errs' = <<>>
  /\ validVirtualServers' = <<>>
  /\ listenerMap' = EmptyMap
  /\ pendingNamespaces' = {}
  /\ namespace' = NoNamespace
  /\ vsListForNamespace' = <<>>
  /\ tsListForNamespace' = <<>>
  /\ vsIdx' = 1
  /\ tsIdx' = 1
  /\ virtualServerMap' = EmptyMap
  /\ upstreamConfigs' = EmptyMap
  /\ resolvedRoutes' = <<>>
  /\ rules' = <<>>
  /\ httpRules' = <<>>
  /\ grpcRules' = <<>>
  /\ gatewayMap' = EmptyMap
  /\ httpRouteMap' = EmptyMap
  /\ backendTLSPoliciesMap' = EmptyMap
  /\ grpcRouteMap' = EmptyMap
  /\ tcpRouteMap' = EmptyMap
  /\ tlsRouteMap' = EmptyMap
  /\ udpRouteMap' = EmptyMap
  /\ UNCHANGED <<annotationVars, inputVars>>

\* -------------------------------------------------------------------- inputs
Upstream(name, service, port, type, tls) ==
  [Name |-> name, Service |-> service, Port |-> port, Type |-> type, TLS |-> [Enable |-> tls], LBMethod |-> ""]

UA == Upstream(<<"a">>, <<"svc", "a">>, 80, "", FALSE)
UG == Upstream(<<"g">>, <<"svc", "g">>, 9000, "grpc", FALSE)
\* an upstream of type grpc without a port
UB == Upstream(<<"b">>, <<"svc", "b">>, 0, "grpc", FALSE)
\* an upstream without a service
UN == Upstream(<<"n">>, <<>>, 8080, "", FALSE)
UT == Upstream(<<"t">>, <<"svc", "t">>, 8443, "", TRUE)
\* the TLS upstream of the VirtualServer without a host
UH == Upstream(<<"h">>, <<"svc", "h">>, 9443, "", TRUE)
\* the upstreams a VirtualServerRoute declares: "f" is its own, "a" differs from the VirtualServer's
UF == Upstream(<<"f">>, <<"svc", "f">>, 8081, "", FALSE)
UAF == Upstream(<<"a">>, <<"svc", "af">>, 8082, "", FALSE)

\* never declared
MissingUpstream == <<"x">>

NoAction == [Pass |-> <<>>, Redirect |-> Nil, Return |-> Nil, Proxy |-> Nil]
PassAction(name) == Ptr([NoAction EXCEPT !.Pass = name])
RedirectAction(code) ==
  Ptr([NoAction EXCEPT !.Redirect =
         Ptr([URL |-> [Scheme |-> "https", Host |-> <<"example", "com">>, Path |-> <<"/", "moved">>],
              Code |-> code])])
ReturnAction(code) == Ptr([NoAction EXCEPT !.Return = Ptr([Code |-> code])])
ProxyAction(upstream, rewritePath) ==
  Ptr([NoAction EXCEPT !.Proxy = Ptr([Upstream |-> upstream, RewritePath |-> rewritePath,
                                      RequestHeaders |-> Nil, ResponseHeaders |-> Nil])])

Condition(header, argument, cookie, variable, value) ==
  [Header |-> header, Argument |-> argument, Cookie |-> cookie, Variable |-> variable, Value |-> value]
HeaderCondition == Condition(<<"h">>, <<>>, <<>>, <<>>, <<"v", "1">>)
ArgumentCondition == Condition(<<>>, <<"q">>, <<>>, <<>>, <<"o", "n">>)
HeaderWithoutValue == Condition(<<"h">>, <<>>, <<>>, <<>>, <<>>)
VariableCondition == Condition(<<>>, <<>>, <<>>, <<"$", "m">>, <<"G", "E", "T">>)
\* conditions with a literal value of three characters
MethodHeaderCondition == Condition(<<"m">>, <<>>, <<>>, <<>>, <<"G", "E", "T">>)
FormatArgumentCondition == Condition(<<>>, <<"f">>, <<>>, <<>>, <<"x", "m", "l">>)

Split(weight, action) == [Weight |-> weight, Action |-> action]
Match(conditions, action, splits) == [Conditions |-> conditions, Action |-> action, Splits |-> splits]
Route(path, ref, matches, action, splits) ==
  [Path |-> path, Route |-> ref, Matches |-> matches, Action |-> action, Splits |-> splits]

NoTLS == Nil
TLSWithRedirect(code) ==
  Ptr([Secret |-> <<"cert">>, Redirect |-> Ptr([Enable |-> TRUE, Code |-> code])])

VirtualServer(ns, name, host, upstreams, routes, tls, gunzip) ==
  [Name |-> name, Namespace |-> ns,
   Spec |-> [Host |-> host, Upstreams |-> upstreams, Routes |-> routes, TLS |-> tls, Listener |-> Nil,
             IngressClass |-> "", Gunzip |-> gunzip, ExternalDNS |-> [Enable |-> FALSE], Dos |-> "",
             Policies |-> <<>>, InternalRoute |-> FALSE, HTTPSnippets |-> "", ServerSnippets |-> ""]]

VirtualServerRoute(ns, name, upstreams, subroutes) ==
  [Name |-> name, Namespace |-> ns, Spec |-> [Upstreams |-> upstreams, Subroutes |-> subroutes]]

Shop == <<"shop">>
Ops == <<"ops">>
FragmentRef == <<<<"frag">>>>
MissingRef == <<<<"gone">>>>
CrossRef == <<Ops, <<"frag">>>>

\* the match choices of the main route
ConditionChoices == {<<>>, <<HeaderCondition>>, <<VariableCondition>>, <<HeaderWithoutValue, ArgumentCondition>>}
MatchChoices ==
  {Match(c, a, <<>>) : c \in ConditionChoices \ {<<VariableCondition>>},
                       a \in {Nil, PassAction(<<"g">>), PassAction(MissingUpstream)}} \cup
  {Match(<<VariableCondition>>, PassAction(<<"a">>), <<>>),
   Match(<<HeaderCondition>>, PassAction(<<"a">>), <<Split(50, PassAction(<<"g">>))>>),
   Match(<<MethodHeaderCondition, FormatArgumentCondition>>, PassAction(<<"a">>), <<>>),
   Match(<<>>, PassAction(<<"a">>), <<Split(50, PassAction(<<"g">>)), Split(50, PassAction(<<"a">>))>>)}

ActionChoices ==
  {Nil, PassAction(<<"a">>), PassAction(<<"g">>), PassAction(<<"b">>), PassAction(<<"n">>),
   PassAction(MissingUpstream), RedirectAction(307), ReturnAction(200),
   ProxyAction(<<"a">>, <<"/", "n">>), ProxyAction(MissingUpstream, <<>>)}

SplitChoices ==
  {Split(50, PassAction(<<"a">>)), Split(50, PassAction(<<"g">>)), Split(0, PassAction(MissingUpstream)),
   Split(50, PassAction(MissingUpstream)), Split(50, RedirectAction(301))}

\* the codes a redirect declares: none, one passed on, and the two that are mapped
RedirectCodes == {0, 302, 307, 308}

\* the main routes: every match list with a plain route-level part, every
\* route-level action and split list with a plain match list, and redirects of
\* every code at the route, in a match and in a split
MainRoutes ==
  {Route(<<"/">>, <<>>, m, a, s) :
      m \in UNION {{<<>>, <<Match(<<HeaderCondition>>, RedirectAction(c), <<>>)>>} : c \in RedirectCodes},
      a \in {Nil} \cup {RedirectAction(c) : c \in RedirectCodes},
      s \in UNION {{<<>>, <<Split(50, RedirectAction(c)), Split(50, PassAction(<<"a">>))>>} :
                     c \in RedirectCodes}} \cup
  {Route(<<"/">>, <<>>, m, a, s) :
      m \in SeqsUpTo(MatchChoices, MaxMatches),
      a \in {Nil, PassAction(<<"a">>), PassAction(<<"g">>)},
      s \in {<<>>, <<Split(80, PassAction(<<"a">>)), Split(20, PassAction(<<"g">>))>>}} \cup
  {Route(<<"/">>, <<>>, m, a, s) :
      m \in {<<>>, <<Match(<<HeaderCondition>>, PassAction(<<"a">>), <<>>)>>},
      a \in ActionChoices,
      s \in SeqsUpTo(SplitChoices, MaxSplits)}

RichVirtualServer(route) ==
  VirtualServer(Shop, <<"web">>, <<"web", "example", "com">>, <<UA, UG, UB, UN>>, <<route>>, NoTLS, FALSE)

\* the routes and the fragment of the reference-resolving inputs; the sub-route
\* /loop carries a reference of its own, to the fragment frag of the namespace
\* ops (to its own fragment, when that is the one)
SubrouteChoices ==
  {Route(<<"/", "f">>, <<>>, <<>>, PassAction(<<"f">>), <<>>),
   Route(<<"/", "fa">>, <<>>, <<Match(<<HeaderCondition>>, PassAction(<<"a">>), <<>>)>>, PassAction(<<"a">>), <<>>),
   Route(<<"/", "fg">>, <<>>, <<>>, Nil, <<Split(50, PassAction(<<"g">>)), Split(50, PassAction(<<"f">>))>>),
   Route(<<"/", "loop">>, CrossRef, <<>>, Nil, <<>>)}

\* a reference "frag" names the fragment of the VirtualServer's namespace, a
\* reference "ops/frag" the one of the namespace ops
RouteChoices ==
  {Route(<<"/", "i">>, <<>>, <<Match(<<ArgumentCondition>>, PassAction(<<"g">>), <<>>)>>, PassAction(<<"a">>), <<>>),
   Route(<<"/", "r">>, FragmentRef, <<>>, Nil, <<>>),
   Route(<<"/", "c">>, CrossRef, <<>>, Nil, <<>>)}

Fragment(ns, subroutes) == VirtualServerRoute(ns, <<"frag">>, <<UF, UAF>>, subroutes)

ReferringVirtualServer(routes) ==
  VirtualServer(Shop, <<"cafe">>, <<"cafe", "example", "com">>, <<UA, UG>>, routes, NoTLS, FALSE)

\* the resources of the multi-resource inputs
VSProfiles ==
  <<VirtualServer(Shop, <<"web">>, <<"web", "example", "com">>, <<UA, UG>>,
                  <<Route(<<"/">>, <<>>, <<>>, PassAction(<<"a">>), <<>>),
                    Route(<<"/", "rpc">>, <<>>, <<>>, PassAction(<<"g">>), <<>>)>>, NoTLS, FALSE),
    VirtualServer(Ops, <<"api">>, <<"api", "example", "com">>, <<UA, UN>>,
                  <<Route(<<"/">>, <<>>, <<>>, PassAction(<<"a">>), <<>>)>>, TLSWithRedirect(Ptr(301)), FALSE),
    VirtualServer(Shop, <<"nohost">>, <<>>, <<UA, UH>>,
                  <<Route(<<"/">>, <<>>, <<>>, PassAction(<<"a">>), <<>>),
                    Route(<<"/", "h">>, <<>>, <<>>, PassAction(<<"h">>), <<>>)>>, TLSWithRedirect(Ptr(302)), TRUE),
    VirtualServer(Ops, <<"tea">>, <<"tea", "example", "com">>, <<UT>>,
                  <<Route(<<"/", "m">>, MissingRef, <<>>, Nil, <<>>),
                    Route(<<"/">>, <<>>, <<>>, PassAction(<<"t">>), <<>>)>>, NoTLS, TRUE),
    VirtualServer(Shop, <<"cafe">>, <<"cafe", "example", "com">>, <<UA, UB>>,
                  <<Route(<<"/", "r">>, FragmentRef, <<>>, Nil, <<>>),
                    Route(<<"/">>, <<>>, <<>>, PassAction(<<"b">>), <<>>)>>, NoTLS, FALSE)>>

TransportServer(ns, name, listenerName, protocol, upstreams, action) ==
  [Name |-> name, Namespace |-> ns,
   Spec |-> [Listener |-> [Name |-> listenerName, Protocol |-> protocol], Host |-> <<>>,
             Upstreams |-> upstreams, Action |-> action]]

TSUpstream(name, service, port) == [Name |-> name, Service |-> service, Port |-> port]

TSProfiles ==
  <<TransportServer(Shop, <<"dns">>, "dns-udp", "UDP", <<TSUpstream(<<"d">>, <<"coredns">>, 5353)>>,
                    Ptr([Pass |-> <<"d">>])),
    TransportServer(Ops, <<"db">>, "db-tcp", "TCP", <<TSUpstream(<<"p">>, <<"postgres">>, 5432)>>,
                    Ptr([Pass |-> <<"p">>])),
    TransportServer(Ops, <<"bare">>, "", "", <<TSUpstream(<<"p">>, <<"postgres">>, 5432)>>,
                    Ptr([Pass |-> <<"p">>])),
    TransportServer(Shop, <<"sec">>, "tls-passthrough", "TLS_PASSTHROUGH",
                    <<TSUpstream(<<"s">>, <<"secure">>, 8443)>>, Ptr([Pass |-> <<"gone">>]))>>

\* TransportServers the listener checks skip: no listener name, no protocol,
\* a listener the GlobalConfiguration does not have
TSSkipProfiles ==
  <<TransportServer(Ops, <<"anon">>, "", "TCP", <<TSUpstream(<<"p">>, <<"postgres">>, 5432)>>,
                    Ptr([Pass |-> <<"p">>])),
    TransportServer(Ops, <<"half">>, "db-tcp", "", <<TSUpstream(<<"p">>, <<"postgres">>, 5432)>>,
                    Ptr([Pass |-> <<"p">>])),
    TransportServer(Ops, <<"lost">>, "ghost", "TCP", <<TSUpstream(<<"p">>, <<"postgres">>, 5432)>>,
                    Ptr([Pass |-> <<"p">>]))>>

\* TransportServers for the protocol dispatch: a TLS passthrough with a host, a
\* protocol the converter does not know on a configured listener, an action
\* that names no upstream of the list, and no action
TSDispatchProfiles ==
  <<[TransportServer(Shop, <<"sni">>, "tls-passthrough", "TLS_PASSTHROUGH",
                     <<TSUpstream(<<"s">>, <<"secure">>, 8443)>>, Ptr([Pass |-> <<"s">>]))
       EXCEPT !.Spec.Host = <<"secure", "example", "com">>],
    TransportServer(Ops, <<"odd">>, "db-tcp", "HTTP", <<TSUpstream(<<"p">>, <<"postgres">>, 5432)>>,
                    Ptr([Pass |-> <<"p">>])),
    TransportServer(Ops, <<"stray">>, "db-tcp", "TCP",
                    <<TSUpstream(<<"p">>, <<"postgres">>, 5432), TSUpstream(<<"q">>, <<"replica">>, 5433)>>,
                    Ptr([Pass |-> <<"gone">>])),
    TransportServer(Ops, <<"second">>, "db-tcp", "TCP",
                    <<TSUpstream(<<"p">>, <<"postgres">>, 5432), TSUpstream(<<"q">>, <<"replica">>, 5433)>>,
                    Ptr([Pass |-> <<"q">>]))>>

TSCatalog == TSProfiles \o TSSkipProfiles \o TSDispatchProfiles

GlobalConfiguration ==
  [Spec |-> [Listeners |-> <<[Name |-> "dns-udp", Port |-> 5353, Protocol |-> "UDP"],
                             [Name |-> "db-tcp", Port |-> 5432, Protocol |-> "TCP"],
                             [Name |-> "tls-passthrough", Port |-> 443, Protocol |-> "TLS_PASSTHROUGH"]>>]]

\* the sequences of at most n distinct positions of the catalog xs
Picks(xs, n) ==
  {p \in SeqsUpTo(1..Len(xs), n) : \A i, j \in 1..Len(p) : i # j => p[i] # p[j]}

\* one VirtualServer with a rich route
InitRules ==
  /\ \E route \in MainRoutes : virtualServers = <<RichVirtualServer(route)>>
  /\ virtualServerRoutes = <<>>
  /\ transportServers = <<>>
  /\ globalConfiguration = Nil

\* one VirtualServer whose routes refer to a VirtualServerRoute
InitReferences ==
  /\ \E routes \in SeqsUpTo(RouteChoices, MaxRoutes) : virtualServers = <<ReferringVirtualServer(routes)>>
  /\ \E ns \in {Shop, Ops}, subroutes \in SeqsUpTo(SubrouteChoices, MaxSubroutes) :
        virtualServerRoutes = <<Fragment(ns, subroutes)>>
  /\ transportServers = <<>>
  /\ globalConfiguration = Nil

\* the top-level fields of a VirtualServer the conversion does not support
UnsupportedFields == {"gunzip", "externalDNS", "dos", "policies", "internalRoute", "http-snippets", "server-snippets"}

\* the VirtualServer v with the unsupported fields fs set, one policy reference when policies is
WithUnsupportedFields(v, fs) ==
  [v EXCEPT !.Spec.Gunzip = "gunzip" \in fs,
            !.Spec.ExternalDNS = [Enable |-> "externalDNS" \in fs],
            !.Spec.Dos = IF "dos" \in fs THEN "dos-policy" ELSE "",
            !.Spec.Policies = IF "policies" \in fs
                              THEN <<[Name |-> <<"rate", "limit">>, Namespace |-> v.Namespace]>> ELSE <<>>,
            !.Spec.InternalRoute = "internalRoute" \in fs,
            !.Spec.HTTPSnippets = IF "http-snippets" \in fs THEN "custom http config" ELSE "",
            !.Spec.ServerSnippets = IF "server-snippets" \in fs THEN "custom server config" ELSE ""]

LegacyVirtualServer ==
  VirtualServer(Shop, <<"legacy">>, <<"legacy", "example", "com">>, <<UA>>,
                <<Route(<<"/">>, <<>>, <<>>, PassAction(<<"a">>), <<>>)>>, NoTLS, FALSE)

\* the web shop: TLS with redirect, a plain and a TLS-enabled upstream, the route
\* / and the route /api whose match on a header proxies with a rewritten path
\* and a request header set
ECommerceVirtualServer ==
  VirtualServer(<<"production">>, <<"ecommerce", "web">>, <<"shop", "example", "com">>,
                <<Upstream(<<"web", "frontend">>, <<"web", "frontend", "svc">>, 3000, "", FALSE),
                  Upstream(<<"api", "backend">>, <<"api", "backend", "svc">>, 8080, "", TRUE)>>,
                <<Route(<<"/">>, <<>>, <<>>, PassAction(<<"web", "frontend">>), <<>>),
                  Route(<<"/", "api">>, <<>>,
                        <<Match(<<Condition(<<"X-API-Version">>, <<>>, <<>>, <<>>, <<"v", "2">>)>>,
                                Ptr([NoAction EXCEPT !.Proxy =
                                       Ptr([Upstream |-> <<"api", "backend">>,
                                            RewritePath |-> <<"/", "v2", "/", "api">>,
                                            RequestHeaders |->
                                               Ptr([Set |-> <<[Name |-> "X-Forwarded-Proto", Value |-> "https"]>>,
                                                    Pass |-> Nil]),
                                            ResponseHeaders |-> Nil])]),
                                <<>>)>>,
                        PassAction(<<"api", "backend">>), <<>>)>>,
                Ptr([Secret |-> <<"shop", "tls">>, Redirect |-> Ptr([Enable |-> TRUE, Code |-> Ptr(301)])]),
                FALSE)

\* TLS-enabled upstreams: one without a service, one without a port
UTN == Upstream(<<"tn">>, <<>>, 8443, "", TRUE)
UTP == Upstream(<<"tp">>, <<"svc", "tp">>, 0, "", TRUE)

\* a VirtualServer with TLS-enabled upstreams, valid and not, and a plain one
SecureVirtualServer ==
  VirtualServer(Ops, <<"vault">>, <<"vault", "example", "com">>, <<UTN, UT, UA, UTP, UH>>,
                <<Route(<<"/">>, <<>>, <<>>, PassAction(<<"t">>), <<>>)>>, NoTLS, FALSE)

\* TLS-enabled upstreams whose service and name give the same policy name:
\* service pay-api with name v2, service pay with name api-v2
UPA == Upstream(<<"v2">>, <<"pay", "api">>, 8443, "", TRUE)
UPB == Upstream(<<"api", "v2">>, <<"pay">>, 9443, "", TRUE)

\* a VirtualServer with both of these upstreams, and two with one each
PaymentVirtualServer ==
  VirtualServer(Ops, <<"pay">>, <<"pay", "example", "com">>, <<UPA, UPB>>,
                <<Route(<<"/">>, <<>>, <<>>, PassAction(<<"v2">>), <<>>)>>, NoTLS, FALSE)
CheckoutVirtualServer ==
  VirtualServer(Ops, <<"checkout">>, <<"checkout", "example", "com">>, <<UPA>>,
                <<Route(<<"/">>, <<>>, <<>>, PassAction(<<"v2">>), <<>>)>>, NoTLS, FALSE)
BillingVirtualServer ==
  VirtualServer(Ops, <<"billing">>, <<"billing", "example", "com">>, <<UPB>>,
                <<Route(<<"/">>, <<>>, <<>>, PassAction(<<"api", "v2">>), <<>>)>>, NoTLS, FALSE)

\* a VirtualServer whose proxy actions rewrite the path in every way: to a full
\* path, to a prefix, not at all, with a variable, and in a match
RewritingVirtualServer ==
  VirtualServer(Shop, <<"rewrite">>, <<"rewrite", "example", "com">>, <<UA>>,
                <<Route(<<"/", "full">>, <<>>, <<>>, ProxyAction(<<"a">>, <<"/", "n">>), <<>>),
                  Route(<<"/", "prefix">>, <<>>, <<>>, ProxyAction(<<"a">>, <<"n">>), <<>>),
                  Route(<<"/", "none">>, <<>>, <<>>, ProxyAction(<<"a">>, <<>>), <<>>),
                  Route(<<"/", "var">>, <<>>, <<>>, ProxyAction(<<"a">>, <<"/", "$", "n">>), <<>>),
                  Route(<<"/", "match">>, <<>>,
                        <<Match(<<HeaderCondition>>, ProxyAction(<<"a">>, <<"n", "/", "v">>), <<>>)>>,
                        Nil, <<>>)>>,
                NoTLS, FALSE)

\* VirtualServers converted on their own: the web shop, one with TLS-enabled
\* upstreams, one whose proxy actions rewrite the path, one with TLS redirect
\* and no redirect code, and one with every set of unsupported fields
Scenarios ==
  {ECommerceVirtualServer, SecureVirtualServer, RewritingVirtualServer, PaymentVirtualServer} \cup
  {VirtualServer(Ops, <<"plain">>, <<"plain", "example", "com">>, <<UA>>,
                 <<Route(<<"/">>, <<>>, <<>>, PassAction(<<"a">>), <<>>)>>, TLSWithRedirect(Nil), FALSE)} \cup
  {WithUnsupportedFields(LegacyVirtualServer, fs) : fs \in SUBSET UnsupportedFields}

\* one VirtualServer of a scenario
InitScenarios ==
  /\ \E v \in Scenarios : virtualServers = <<v>>
  /\ virtualServerRoutes = <<>>
  /\ transportServers = <<>>
  /\ globalConfiguration = Nil

\* two VirtualServers of one namespace whose TLS-enabled upstreams give the same
\* policy name, in either order
InitSharedNamespace ==
  /\ virtualServers \in {<<CheckoutVirtualServer, BillingVirtualServer>>,
                         <<BillingVirtualServer, CheckoutVirtualServer>>}
  /\ virtualServerRoutes = <<>>
  /\ transportServers = <<>>
  /\ globalConfiguration = Nil

\* TransportServers only
InitTransportServers ==
  /\ virtualServers = <<>>
  /\ virtualServerRoutes = <<>>
  /\ \E p \in Picks(TSCatalog, MaxTransportServersAlone) :
        /\ Len(p) > 0
        /\ transportServers = [i \in 1..Len(p) |-> TSCatalog[p[i]]]
  /\ globalConfiguration \in {Nil, Ptr(GlobalConfiguration)}

\* several resources in two namespaces
InitResources ==
  /\ \E p \in Picks(VSProfiles, MaxVirtualServers) : virtualServers = [i \in 1..Len(p) |-> VSProfiles[p[i]]]
  /\ virtualServerRoutes = <<Fragment(Shop, <<Route(<<"/", "f">>, <<>>, <<>>, PassAction(<<"f">>), <<>>)>>)>>
  /\ \E p \in Picks(TSProfiles, MaxTransportServers) : transportServers = [i \in 1..Len(p) |-> TSProfiles[p[i]]]
  /\ globalConfiguration \in {Nil, Ptr(GlobalConfiguration)}

\* no Ingress: BackendProtocolFeature is not called
NoIngressCall ==
  /\ ingress = Nil
  /\ irAtCall = Nil
  /\ ingressIR = Nil
  /\ grpcServiceSet = {}
  /\ ruleIdx = 1
  /\ annotationPC = "idle"

Init ==
  /\ \/ InitRules
     \/ InitReferences
     \/ InitScenarios
     \/ InitSharedNamespace
     \/ InitTransportServers
     \/ InitResources
  /\ run = 1
  /\ firstResult = Nil
  /\ Entry
  /\ NoIngressCall

Next ==
  \/ ValidateVirtualServers
  \/ ReturnEmpty
  \/ GroupByNamespace
  \/ NextNamespace
  \/ PrepareVirtualServer
  \/ ResolveRoutes
  \/ BuildRules
  \/ PartitionRules
  \/ RewriteNames
  \/ EmitRoutes
  \/ ProcessUpstreamTLSPolicies
  \/ ConvertTransportServer
  \/ Return
  \/ Rerun

Spec == Init /\ [][Next]_vars

\* the conversion is one sequential call: ConvertToRoutes, once entered, runs
\* its resolution
FairSpec == Spec /\ WF_vars(ResolveRoutes)

\* ------------------------------------------------- grpc-services annotation
\* BackendProtocolFeature for one Ingress that has no ssl-services and no
\* websocket-services annotation. The value of the grpc-services annotation is
\* the list of its comma-separated pieces, a piece the list of its tokens, a
\* blank being a token of its own: "" is the one empty piece.
MaxIngressRules == 2

EmptyString == <<<<>>>>

RECURSIVE TrimLeft(_)
TrimLeft(piece) == IF piece # <<>> /\ Head(piece) = " " THEN TrimLeft(Tail(piece)) ELSE piece

RECURSIVE TrimRight(_)
TrimRight(piece) ==
  IF piece # <<>> /\ piece[Len(piece)] = " " THEN TrimRight(SubSeq(piece, 1, Len(piece) - 1)) ELSE piece

TrimSpace(piece) == TrimRight(TrimLeft(piece))

\* lines 142-150: the set of the trimmed, non-empty pieces
ParseServices(value) == {TrimSpace(value[i]) : i \in 1..Len(value)} \ {<<>>}

\* the route name that the Ingress converter and the annotation share
RouteName(ingressName, host) == ingressName \o host

\* parseGRPCServiceMethod of the annotations package: the path without its
\* leading "/", cut at its first "/"
annotationsParseGRPCServiceMethod(path) ==
  LET p == IF HasPrefix(path, "/") THEN Tail(path) ELSE path
      slashes == {i \in 1..Len(p) : p[i] = "/"}
  IN IF slashes # {}
     THEN [service |-> SubSeq(p, 1, Min(slashes) - 1), method |-> SubSeq(p, Min(slashes) + 1, Len(p))]
     ELSE [service |-> p, method |-> <<>>]

\* lines 187-200: the match of a gRPC rule
GRPCMatchOfPath(path) ==
  IF path.Path = <<>> THEN [Method |-> Nil]
  ELSE With(annotationsParseGRPCServiceMethod(path.Path), LAMBDA sm :
         [Method |-> IF sm.service # <<>> THEN Ptr([Service |-> sm.service, Method |-> sm.method]) ELSE Nil])

\* lines 183-222: the gRPC rule of a path
GRPCRuleOfPath(path) ==
  [Matches |-> <<GRPCMatchOfPath(path)>>,
   BackendRefs |-> <<[Name |-> path.Backend.Service.Name,
                      Port |-> IF path.Backend.Service.Port.Number # 0
                               THEN Ptr(path.Backend.Service.Port.Number) ELSE Nil]>>]

\* lines 180-223: the gRPC rules of the paths whose service is in the set
GRPCRouteRulesOf(paths, services) ==
  Flatten([i \in 1..Len(paths) |->
             IF paths[i].Backend.Service.Name \in services THEN <<GRPCRuleOfPath(paths[i])>> ELSE <<>>])

\* lines 241-267: the GRPCRoute of a rule
GRPCRouteOfRule(ing, rule, grpcRouteRules) ==
  [Name |-> RouteName(ing.Name, rule.Host), Namespace |-> ing.Namespace,
   ParentRefs |-> <<[Name |-> IF ing.Spec.IngressClassName # Nil THEN Deref(ing.Spec.IngressClassName)
                              ELSE "nginx"]>>,
   Hostnames |-> IF rule.Host # <<>> THEN <<rule.Host>> ELSE <<>>,
   Rules |-> grpcRouteRules]

\* delete(m, k)
MapDelete(m, k) == [x \in DOMAIN m \ {k} |-> m[x]]

\* lines 41-47: the annotation is absent or empty, processGRPCServicesAnnotation
\* is not called
SkipGRPCServices ==
  /\ annotationPC = "start"
  /\ Deref(ingress).Annotations.grpcServices = Nil \/ Deref(ingress).Annotations.grpcServices = Ptr(EmptyString)
  /\ annotationPC' = "done"
  /\ UNCHANGED <<ingress, irAtCall, ingressIR, grpcServiceSet, ruleIdx>>
  /\ UNCHANGED <<inputVars, callVars, pc, notificationList, errs, loopVars, converterVars, gatewayMap,
                 l7Vars, l4Vars>>

\* lines 138-174: the service set, and the services marked as gRPC
MarkGRPCServices ==
  /\ annotationPC = "start"
  /\ Deref(ingress).Annotations.grpcServices # Nil
  /\ Deref(ingress).Annotations.grpcServices # Ptr(EmptyString)
  /\ \E services \in {ParseServices(Deref(Deref(ingress).Annotations.grpcServices))} :
        /\ grpcServiceSet' = services
        /\ ingressIR' = Ptr([Deref(ingressIR) EXCEPT !.Services =
                        MapCopy(@, [key \in {NamespacedName(Deref(ingress).Namespace, name) : name \in services}
                                      |-> [AppProtocol |-> "grpc"]])])
  /\ ruleIdx' = 1
  /\ annotationPC' = "rules"
  /\ UNCHANGED <<ingress, irAtCall>>
  /\ UNCHANGED <<inputVars, callVars, pc, notificationList, errs, loopVars, converterVars, gatewayMap,
                 l7Vars, l4Vars>>

\* lines 177-285: one iteration of the loop over ingress.Spec.Rules
ProcessIngressRule ==
  /\ annotationPC = "rules"
  /\ ruleIdx <= Len(Deref(ingress).Spec.Rules)
  /\ \E rule \in {Deref(ingress).Spec.Rules[ruleIdx]} :
        IF rule.HTTP = Nil
        THEN ingressIR' = ingressIR
        ELSE \E grpcRouteRules \in {GRPCRouteRulesOf(Deref(rule.HTTP).Paths, grpcServiceSet)} :
               \E routeKey \in {NamespacedName(Deref(ingress).Namespace,
                                              RouteName(Deref(ingress).Name, rule.Host))} :
                  IF Len(grpcRouteRules) > 0
                  THEN ingressIR' = Ptr([Deref(ingressIR) EXCEPT
                                    !.GRPCRoutes = MapPut(@, routeKey,
                                                          GRPCRouteOfRule(Deref(ingress), rule, grpcRouteRules)),
                                    !.HTTPRoutes = IF HasKey(@, routeKey) THEN MapDelete(@, routeKey) ELSE @])
                  ELSE ingressIR' = ingressIR
  /\ ruleIdx' = ruleIdx + 1
  /\ UNCHANGED <<ingress, irAtCall, grpcServiceSet, annotationPC>>
  /\ UNCHANGED <<inputVars, callVars, pc, notificationList, errs, loopVars, converterVars, gatewayMap,
                 l7Vars, l4Vars>>

\* line 287: the loop is over
ReturnFromAnnotation ==
  /\ annotationPC = "rules"
  /\ ruleIdx > Len(Deref(ingress).Spec.Rules)
  /\ annotationPC' = "done"
  /\ UNCHANGED <<ingress, irAtCall, ingressIR, grpcServiceSet, ruleIdx>>
  /\ UNCHANGED <<inputVars, callVars, pc, notificationList, errs, loopVars, converterVars, gatewayMap,
                 l7Vars, l4Vars>>

\* ----------------------------------------------------- inputs of the annotation
IngressPath(path, service, port, filters) ==
  [Path |-> path, Backend |-> [Service |-> [Name |-> service, Port |-> [Number |-> port]]],
   Filters |-> filters]

HeaderFilters ==
  <<[Type |-> "RequestHeaderModifier", Set |-> <<[Name |-> "X-Custom-Header", Value |-> "test-value"]>>,
     Remove |-> <<>>],
    [Type |-> "ResponseHeaderModifier", Set |-> <<>>, Remove |-> <<"Server">>]>>

GRPCPath == IngressPath(<<"/", "grpc.service", "/", "Method">>, <<"grpc-service">>, 50051, HeaderFilters)
APIPath == IngressPath(<<"/", "api", "/", "v1">>, <<"http-service">>, 8080, <<HeaderFilters[1]>>)
RootPath == IngressPath(<<"/">>, <<"http-service">>, 8080, <<>>)
OtherGRPCPath == IngressPath(<<"/", "pkg.Svc">>, <<"other-grpc">>, 0, <<>>)

IngressRule(host, paths) == [Host |-> host, HTTP |-> Ptr([Paths |-> paths])]

\* a rule with gRPC paths only, a mixed one, one without a gRPC path, one
\* without HTTP paths, and one with two gRPC services and no host
IngressRuleCatalog ==
  <<IngressRule(<<"grpc", "example", "com">>, <<GRPCPath>>),
    IngressRule(<<"mixed", "example", "com">>, <<GRPCPath, APIPath>>),
    IngressRule(<<"web", "example", "com">>, <<RootPath, APIPath>>),
    [Host |-> <<"raw", "example", "com">>, HTTP |-> Nil],
    IngressRule(<<>>, <<OtherGRPCPath, GRPCPath, RootPath>>)>>

\* the values of the annotation: absent, empty, one service, two services with
\* blanks and an empty piece, a service that no path uses
GRPCServicesChoices ==
  {Nil, Ptr(EmptyString), Ptr(<<<<"grpc-service">>>>),
   Ptr(<<<<" ", "grpc-service">>, <<>>, <<"other-grpc", " ">>>>),
   Ptr(<<<<"unused">>>>)}

\* the HTTPRoute that the Ingress converter made of a rule: one rule per path
HTTPRouteOfRule(ing, rule) ==
  [Name |-> RouteName(ing.Name, rule.Host), Namespace |-> ing.Namespace,
   Hostnames |-> IF rule.Host # <<>> THEN <<rule.Host>> ELSE <<>>,
   Rules |-> [i \in 1..Len(Deref(rule.HTTP).Paths) |->
                [Matches |-> <<[Path |-> [Type |-> "PathPrefix", Value |-> Deref(rule.HTTP).Paths[i].Path]]>>,
                 BackendRefs |-> <<[Name |-> Deref(rule.HTTP).Paths[i].Backend.Service.Name,
                                    Port |-> Ptr(Deref(rule.HTTP).Paths[i].Backend.Service.Port.Number)]>>,
                 Filters |-> Deref(rule.HTTP).Paths[i].Filters]]]

\* the IR that the Ingress converter hands to the annotation
IRBeforeAnnotations(ing) ==
  [HTTPRoutes |->
     [key \in {NamespacedName(ing.Namespace, RouteName(ing.Name, ing.Spec.Rules[i].Host)) :
                 i \in {i \in 1..Len(ing.Spec.Rules) : ing.Spec.Rules[i].HTTP # Nil}} |->
        HTTPRouteOfRule(ing, ing.Spec.Rules[CHOOSE i \in 1..Len(ing.Spec.Rules) :
                                              /\ ing.Spec.Rules[i].HTTP # Nil
                                              /\ NamespacedName(ing.Namespace,
                                                                RouteName(ing.Name, ing.Spec.Rules[i].Host)) = key])],
   GRPCRoutes |-> EmptyMap,
   Services |-> EmptyMap]

\* one Ingress with rules of the catalog, no resource of the CRD conversion
AnnotationInit ==
  /\ virtualServers = <<>>
  /\ virtualServerRoutes = <<>>
  /\ transportServers = <<>>
  /\ globalConfiguration = Nil
  /\ run = 1
  /\ firstResult = Nil
  /\ Entry
  /\ \E p \in Picks(IngressRuleCatalog, MaxIngressRules) : \E a \in GRPCServicesChoices :
       \E class \in {Nil, Ptr("nginx-plus")} :
        /\ ingress = Ptr([Name |-> <<"shop", "ingress">>, Namespace |-> <<"default">>,
                          Annotations |-> [grpcServices |-> a],
                          Spec |-> [IngressClassName |-> class,
                                    Rules |-> [i \in 1..Len(p) |-> IngressRuleCatalog[p[i]]]]])
        /\ irAtCall = Ptr(IRBeforeAnnotations(Deref(ingress)))
        /\ ingressIR = irAtCall
  /\ grpcServiceSet = {}
  /\ ruleIdx = 1
  /\ annotationPC = "start"

AnnotationNext ==
  \/ SkipGRPCServices
  \/ MarkGRPCServices
  \/ ProcessIngressRule
  \/ ReturnFromAnnotation

AnnotationSpec == AnnotationInit /\ [][AnnotationNext]_vars

\* -------------------------------------------------------------------- claims
\* The claims about one VirtualServer are stated at pc = "tls": ConvertToRoutes
\* has returned for currentVS, its routes are in the maps, and resolvedRoutes,
\* rules, httpRules and grpcRules still hold what the converter computed.
Converted == pc = "tls"

\* the positions of the notifications that refer to v
NotificationsOf(v) == {n \in 1..Len(notificationList) : notificationList[n].Object = ObjRef(v)}

\* An action site of a route is <<m, k>>: m the position of a match (the
\* position after the last match for the route itself), k the position of a
\* split of it (0 for its action).
Holder(route, m) == IF m <= Len(route.Matches) THEN route.Matches[m] ELSE route

\* the sites the conversion has to treat: a match without an action is no rule,
\* a split without an action or of weight 0 is skipped
SitesOf(route) ==
  UNION {{<<m, k>> : k \in {k \in 0..Len(Holder(route, m).Splits) :
                              /\ m <= Len(route.Matches) => route.Matches[m].Action # Nil
                              /\ IF k = 0 THEN Holder(route, m).Action # Nil
                                 ELSE /\ Holder(route, m).Splits[k].Action # Nil
                                      /\ Holder(route, m).Splits[k].Weight # 0}} :
         m \in 1..(Len(route.Matches) + 1)}

SiteAction(route, site) ==
  IF site[2] = 0 THEN Deref(Holder(route, site[1]).Action)
  ELSE Deref(Holder(route, site[1]).Splits[site[2]].Action)

\* the upstream an action names: that of pass, or that of proxy when the action
\* is neither a redirect nor a return; <<>> when it names none
NamedUpstream(a) ==
  IF a.Pass # <<>> THEN a.Pass
  ELSE IF a.Redirect = Nil /\ a.Return = Nil /\ a.Proxy # Nil THEN Deref(a.Proxy).Upstream
  ELSE <<>>

\* the upstream list of the resource that owns a resolved route
OwnerUpstreams(rr) ==
  IF rr.Source.Type = "VirtualServerRoute" THEN rr.Upstreams ELSE rr.VirtualServer.Spec.Upstreams

\* <<i, m, k>>: the sites of the resolved routes of currentVS
AllSites == UNION {{<<i, site[1], site[2]>> : site \in SitesOf(resolvedRoutes[i].Route)} :
                   i \in 1..Len(resolvedRoutes)}

SiteUpstream(s) == NamedUpstream(SiteAction(resolvedRoutes[s[1]].Route, <<s[2], s[3]>>))

MissingSites ==
  {s \in AllSites : /\ SiteUpstream(s) # <<>>
                    /\ findUpstream(OwnerUpstreams(resolvedRoutes[s[1]]), SiteUpstream(s)) = Nil}

UpstreamNotFoundWarnings(name) ==
  {n \in NotificationsOf(currentVS) :
      /\ notificationList[n].Type = "Warning"
      /\ notificationList[n].Message[1] \in {"Upstream '%s' not found for route",
                                             "Upstream '%s' not found for proxy action"}
      /\ notificationList[n].Message[2] = name}

\* the positions in rs of the rules appended for match m of resolved route i
RulesAt(rs, i, m) == {j \in 1..Len(rs) : rs[j].Origin = <<i, m>>}

\* C1: every action (of a route, of a match, of a split) that names an upstream
\* absent from the upstream list of the resource owning the route is answered
\* by a Warning of its own, and its rule holds no backend reference of that name.
C1_MissingUpstreamWarned ==
  Converted =>
    \A s \in MissingSites :
       /\ Cardinality(UpstreamNotFoundWarnings(SiteUpstream(s))) >=
             Cardinality({t \in MissingSites : SiteUpstream(t) = SiteUpstream(s)})
       /\ \A j \in RulesAt(rules, s[1], s[2]) :
             \A b \in 1..Len(rules[j].BackendRefs) : rules[j].BackendRefs[b].Name # SiteUpstream(s)

\* the keys under which the routes of a VirtualServer are stored
HTTPRouteKey(v) == NamespacedName(v.Namespace, v.Name \o <<"httproute">>)
GRPCRouteKey(v) == NamespacedName(v.Namespace, v.Name \o <<"grpcroute">>)

\* the rules of the route objects emitted for v
EmittedHTTPRules(v) == IF HasKey(httpRouteMap, HTTPRouteKey(v)) THEN httpRouteMap[HTTPRouteKey(v)].Rules ELSE <<>>
EmittedGRPCRules(v) == IF HasKey(grpcRouteMap, GRPCRouteKey(v)) THEN grpcRouteMap[GRPCRouteKey(v)].Rules ELSE <<>>

\* the VirtualServerRoutes a reference of a route of v names
Referenced(route, v) ==
  {f \in Range(virtualServerRoutes) :
      <<f.Namespace, f.Name>> = IF Len(route.Route) = 2 THEN <<route.Route[1], route.Route[2]>>
                                ELSE <<v.Namespace, route.Route[1]>>}

\* the routes v declares, a reference replaced by the sub-routes of its fragment
DeclaredRoutes(v) ==
  Flatten([j \in 1..Len(v.Spec.Routes) |->
             IF v.Spec.Routes[j].Route = <<>> THEN <<v.Spec.Routes[j]>>
             ELSE IF Referenced(v.Spec.Routes[j], v) = {} THEN <<>>
             ELSE (CHOOSE f \in Referenced(v.Spec.Routes[j], v) : TRUE).Spec.Subroutes])

OriginBefore(a, b) == a[1] < b[1] \/ (a[1] = b[1] /\ a[2] < b[2])

InDeclarationOrder(rs) == \A a, b \in 1..Len(rs) : a < b => OriginBefore(rs[a].Origin, rs[b].Origin)

\* C2: the resolved routes follow the route list of the VirtualServer (the
\* sub-routes of a fragment in fragment order); the rules follow the resolved
\* routes, within a route the declared matches, the catch-all rule (base path
\* only) after them; the HTTP rules and the gRPC rules keep that order, and the
\* route objects hold them in it.
C2_DeclarationOrder ==
  Converted =>
    /\ [i \in 1..Len(resolvedRoutes) |-> resolvedRoutes[i].Route] = DeclaredRoutes(currentVS)
    /\ InDeclarationOrder(rules)
    /\ InDeclarationOrder(httpRules)
    /\ InDeclarationOrder(grpcRules)
    /\ \A j \in 1..Len(rules) :
          LET route == resolvedRoutes[rules[j].Origin[1]].Route
              m == rules[j].Origin[2]
          IN /\ rules[j].Matches[1].Path.Value = route.Path
             /\ IF m = Len(route.Matches) + 1
                THEN rules[j].Matches[1].Headers = <<>> /\ rules[j].Matches[1].QueryParams = <<>>
                ELSE /\ m <= Len(route.Matches)
                     /\ rules[j].Matches[1] = createMatch(BasePathMatch(route), route.Matches[m], currentVS).match
    /\ EmittedHTTPRules(currentVS) = httpRules
    /\ EmittedGRPCRules(currentVS) = grpcRules

\* a fragment's sub-routes and an inline route were converted: two routes with a
\* match-level rule and a catch-all rule each, rules in both route objects
C2_Witness ==
  /\ Converted
  /\ Len(httpRules) >= 2
  /\ Len(grpcRules) >= 2
  /\ \E i, k \in 1..Len(resolvedRoutes) :
        /\ resolvedRoutes[i].Source.Type = "VirtualServerRoute"
        /\ resolvedRoutes[k].Source.Type = "VirtualServer"
        /\ RulesAt(rules, i, 1) # {} /\ RulesAt(rules, i, 2) # {}
        /\ RulesAt(rules, k, 1) # {} /\ RulesAt(rules, k, 2) # {}

\* C3: every resolved route yields one rule for each of its matches that
\* carries an action, whatever number of predicates the match translates to,
\* and one more if the route has an action or splits.
C3_OneRulePerMatchWithAction ==
  Converted =>
    \A i \in 1..Len(resolvedRoutes) :
       LET route == resolvedRoutes[i].Route
       IN /\ \A m \in 1..Len(route.Matches) :
                route.Matches[m].Action # Nil => Cardinality(RulesAt(rules, i, m)) = 1
          /\ Cardinality({j \in 1..Len(rules) : rules[j].Origin[1] = i}) =
                Cardinality({m \in 1..Len(route.Matches) : route.Matches[m].Action # Nil}) +
                (IF route.Action # Nil \/ Len(route.Splits) > 0 THEN 1 ELSE 0)

\* the VirtualServer declares an upstream of that name with type grpc
DeclaredGRPC(v, name) == \E u \in Range(v.Spec.Upstreams) : u.Name = name /\ u.Type = "grpc"

\* C4: every rule is in exactly one of the HTTPRoute and the GRPCRoute of its
\* VirtualServer, in the GRPCRoute exactly if one of its backend references
\* names an upstream the VirtualServer declares with type grpc.
C4_PartitionByDeclaredType ==
  Converted =>
    /\ Len(EmittedHTTPRules(currentVS)) + Len(EmittedGRPCRules(currentVS)) = Len(rules)
    /\ \A j \in 1..Len(rules) :
          LET inHTTP == RulesAt(EmittedHTTPRules(currentVS), rules[j].Origin[1], rules[j].Origin[2])
              inGRPC == RulesAt(EmittedGRPCRules(currentVS), rules[j].Origin[1], rules[j].Origin[2])
          IN /\ Cardinality(inHTTP) + Cardinality(inGRPC) = 1
             /\ inGRPC # {} <=> \E b \in 1..Len(rules[j].BackendRefs) :
                                    DeclaredGRPC(currentVS, rules[j].BackendRefs[b].Name)

\* the rule of the converter's list an emitted rule stems from
OriginalRule(e) == rules[CHOOSE j \in 1..Len(rules) : rules[j].Origin = e.Origin]

\* C5: in the emitted routes every backend reference made from an upstream
\* names the service of that upstream, and a rule is a gRPC rule exactly if
\* its references, under their upstream names, made it one.
C5_ServiceNames ==
  Converted =>
    /\ \A j \in 1..Len(EmittedHTTPRules(currentVS)) :
          LET e == EmittedHTTPRules(currentVS)[j]
          IN /\ ~isRouteGRPC(OriginalRule(e), upstreamConfigs)
             /\ \A b \in 1..Len(e.BackendRefs) :
                   OriginalRule(e).BackendRefs[b].Name # <<>> =>
                      e.BackendRefs[b].Name =
                         Deref(findUpstream(currentVS.Spec.Upstreams, OriginalRule(e).BackendRefs[b].Name)).Service
    /\ \A j \in 1..Len(EmittedGRPCRules(currentVS)) :
          LET e == EmittedGRPCRules(currentVS)[j]
          IN /\ isRouteGRPC(OriginalRule(e), upstreamConfigs)
             /\ \A b \in 1..Len(e.BackendRefs) :
                   OriginalRule(e).BackendRefs[b].Name # <<>> =>
                      e.BackendRefs[b].Name =
                         Deref(findUpstream(currentVS.Spec.Upstreams, OriginalRule(e).BackendRefs[b].Name)).Service

\* C6: a second conversion of the same input returns what the first returned:
\* the same IR maps, the same notifications in the same order.
C6_SameResultTwice ==
  (pc = "done" /\ run = 2) => result = firstResult

\* what the conversion of the VirtualServer v yields when nothing else is converted
Alone(v) ==
  LET configs == UpstreamConfigsLoop(v.Spec.Upstreams, v)
      resolved == ResolveRoutesForVirtualServer(RouteIndex(virtualServerRoutes), v)
      built == RulesLoop(resolved.resolved, 1)
      parts == PartitionLoop(built.rules, configs.configs, v)
      http == convertUpstreamNamesToServiceNames(parts.httpRules, configs.configs)
      grpc == convertUpstreamNamesToServiceNames(parts.grpcRules, configs.configs)
  IN [httpRules |-> http,
      grpcRules |-> grpc,
      policies |-> processUpstreamTLSPolicies(v).policies,
      notifs |-> checkUnsupportedVirtualServerFields(v) \o configs.notifs \o resolved.notifs \o built.notifs
                 \o parts.notifs
                 \o (IF Len(http) > 0 THEN createHTTPRoute(v, EmptyMap, http).notifs ELSE <<>>)
                 \o (IF Len(grpc) > 0 THEN createGRPCRoute(v, EmptyMap, grpc).notifs ELSE <<>>)
                 \o processUpstreamTLSPolicies(v).notifs]

\* the notifications of the returned list that refer to v, in their order
ReturnedFor(v) ==
  SelectIdx(Deref(result).notificationList,
            [n \in 1..Len(Deref(result).notificationList) |->
               Deref(result).notificationList[n].Object = ObjRef(v)], 1)

\* the TransportServer passes the two checks made before its conversion
Convertible(t) ==
  /\ t.Spec.Listener.Name # "" /\ t.Spec.Listener.Protocol # ""
  /\ HasKey(BuildListenerMap(globalConfiguration), t.Spec.Listener.Name)

\* C7: the run returns no error, and whatever fails for one resource, the
\* returned IR and notification list hold for every other resource what its
\* conversion yields: the routes, policies and notifications of every
\* VirtualServer with a host, the Gateway of its namespace, the routes and
\* notifications of every TransportServer with a configured listener. A policy
\* key that two VirtualServers write holds the policy of one of them.
C7_PartialResultsKept ==
  pc = "done" =>
    LET ir == Deref(result).ir
        returned == Deref(result).notificationList
    IN /\ Deref(result).errs = <<>>
       /\ \A i \in 1..Len(virtualServers) :
             LET v == virtualServers[i]
             IN IF v.Spec.Host = <<>>
                THEN ReturnedFor(v) =
                        addNotification("Warning", <<"VirtualServer has no host specified, skipping">>, v)
                ELSE /\ HasKey(ir.Gateways, NamespacedName(v.Namespace, v.Namespace \o <<"gateway">>))
                     /\ Len(Alone(v).httpRules) > 0 =>
                           /\ HasKey(ir.HTTPRoutes, HTTPRouteKey(v))
                           /\ ir.HTTPRoutes[HTTPRouteKey(v)].Rules = Alone(v).httpRules
                     /\ Len(Alone(v).grpcRules) > 0 =>
                           /\ HasKey(ir.GRPCRoutes, GRPCRouteKey(v))
                           /\ ir.GRPCRoutes[GRPCRouteKey(v)].Rules = Alone(v).grpcRules
                     /\ \A k \in DOMAIN Alone(v).policies :
                           /\ HasKey(ir.BackendTLSPolicies, k)
                           /\ \E j \in 1..Len(virtualServers) :
                                 /\ virtualServers[j].Spec.Host # <<>>
                                 /\ HasKey(Alone(virtualServers[j]).policies, k)
                                 /\ ir.BackendTLSPolicies[k] = Alone(virtualServers[j]).policies[k]
                     /\ ReturnedFor(v) = Alone(v).notifs
       /\ \A i \in 1..Len(transportServers) :
             LET t == transportServers[i]
                 alone == ConvertTransportServerToRoutes(t, BuildListenerMap(globalConfiguration))
             IN /\ HasKey(ir.Gateways, NamespacedName(t.Namespace, t.Namespace \o <<"gateway">>))
                /\ Convertible(t) =>
                      /\ \A k \in DOMAIN alone.tcpRoutes : HasKey(ir.TCPRoutes, k) /\ ir.TCPRoutes[k] = alone.tcpRoutes[k]
                      /\ \A k \in DOMAIN alone.tlsRoutes : HasKey(ir.TLSRoutes, k) /\ ir.TLSRoutes[k] = alone.tlsRoutes[k]
                      /\ \A k \in DOMAIN alone.udpRoutes : HasKey(ir.UDPRoutes, k) /\ ir.UDPRoutes[k] = alone.udpRoutes[k]
                      /\ \A n \in 1..Len(alone.notifs) : \E r \in 1..Len(returned) : returned[r] = alone.notifs[n]

\* a run in which a VirtualServer without a host came first, a route reference
\* was missing and a TransportServer was skipped, and which returned the
\* HTTPRoute of the VirtualServer that followed
C7_Witness ==
  /\ pc = "done"
  /\ Len(virtualServers) = 2
  /\ virtualServers[1].Spec.Host = <<>>
  /\ HasKey(Deref(result).ir.HTTPRoutes, HTTPRouteKey(virtualServers[2]))
  /\ \E n \in 1..Len(Deref(result).notificationList) :
        Deref(result).notificationList[n].Message[1] = "VirtualServerRoute %s not found, skipping route"
  /\ \E n \in 1..Len(Deref(result).notificationList) :
        Deref(result).notificationList[n].Message[1] =
           "TransportServer '%s' skipped: listener field is required but not specified"

\* the rules of the route objects emitted for currentVS
EmittedRules == EmittedHTTPRules(currentVS) \o EmittedGRPCRules(currentVS)

\* C8: every backend reference of an emitted route that was made from an
\* upstream was made from one that passes validation (a service name, a port
\* other than zero).
C8_NoRefFromInvalidUpstream ==
  Converted =>
    \A j \in 1..Len(EmittedRules) :
       \A b \in 1..Len(OriginalRule(EmittedRules[j]).BackendRefs) :
          LET name == OriginalRule(EmittedRules[j]).BackendRefs[b].Name
          IN name # <<>> =>
                /\ findUpstream(currentVS.Spec.Upstreams, name) # Nil
                /\ validateUpstream(Deref(findUpstream(currentVS.Spec.Upstreams, name)), currentVS).ok

\* the resolved route with the upstream list it carries in the place of the
\* owner's
WithOwnUpstreams(rr) == [rr EXCEPT !.VirtualServer.Spec.Upstreams = rr.Upstreams]

\* the rules made for the resolved route at position i
RulesOf(i) == SelectIdx(rules, [j \in 1..Len(rules) |-> rules[j].Origin[1] = i], 1)

\* C9: a resolved route that stems from a VirtualServerRoute carries the
\* upstream list of that VirtualServerRoute, and its rules are those the
\* conversion makes when the upstream names of its actions and splits are
\* looked up in that list.
C9_FragmentUpstreamsUsed ==
  Converted =>
    \A i \in 1..Len(resolvedRoutes) :
       resolvedRoutes[i].Source.Type = "VirtualServerRoute" =>
          /\ \E f \in Range(virtualServerRoutes) :
                /\ f.Namespace = resolvedRoutes[i].Source.Namespace
                /\ f.Name = resolvedRoutes[i].Source.Name
                /\ resolvedRoutes[i].Upstreams = f.Spec.Upstreams
          /\ RulesOf(i) = convertResolvedRouteToRules(WithOwnUpstreams(resolvedRoutes[i]), i).rules

\* the positions of the routes of v whose reference names an existing
\* VirtualServerRoute f
ReferencesTo(v, f) ==
  {j \in 1..Len(v.Spec.Routes) : v.Spec.Routes[j].Route # <<>> /\ f \in Referenced(v.Spec.Routes[j], v)}

\* the resolved routes of currentVS tagged as coming from f
ResolvedFrom(f) ==
  SelectIdx(resolvedRoutes,
            [i \in 1..Len(resolvedRoutes) |->
               resolvedRoutes[i].Source =
                  [Type |-> "VirtualServerRoute", Namespace |-> f.Namespace, Name |-> f.Name]], 1)

\* the Info notifications about routes resolved from f
ResolvedInfos(f) ==
  {n \in NotificationsOf(currentVS) :
      /\ notificationList[n].Type = "Info"
      /\ notificationList[n].Message[1] = "Resolved %d routes from VirtualServerRoute %s"
      /\ notificationList[n].Message[3] = NamespacedName(f.Namespace, f.Name)}

\* k times the sub-routes of f
Repeated(f, k) == Flatten([r \in 1..k |-> f.Spec.Subroutes])

\* C10 as stated: each reference that names an existing VirtualServerRoute of
\* n sub-routes, whatever n, gives n resolved routes in the order of the
\* sub-routes, tagged with that VirtualServerRoute, and one Info notification
\* that reports n.
C10_OneInfoPerReference ==
  Converted =>
    \A f \in Range(virtualServerRoutes) :
       /\ [i \in 1..Len(ResolvedFrom(f)) |-> ResolvedFrom(f)[i].Route] =
             Repeated(f, Cardinality(ReferencesTo(currentVS, f)))
       /\ Cardinality(ResolvedInfos(f)) = Cardinality(ReferencesTo(currentVS, f))
       /\ \A n \in ResolvedInfos(f) : notificationList[n].Message[2] = Len(f.Spec.Subroutes)

\* C10: each reference that names an existing VirtualServerRoute of n
\* sub-routes gives n resolved routes in the order of the sub-routes, tagged
\* with that VirtualServerRoute; for n >= 1 it gives one Info notification
\* that reports n, for n = 0 no notification.
C10_OneInfoPerNonEmptyReference ==
  Converted =>
    \A f \in Range(virtualServerRoutes) :
       /\ [i \in 1..Len(ResolvedFrom(f)) |-> ResolvedFrom(f)[i].Route] =
             Repeated(f, Cardinality(ReferencesTo(currentVS, f)))
       /\ Cardinality(ResolvedInfos(f)) =
             IF Len(f.Spec.Subroutes) = 0 THEN 0 ELSE Cardinality(ReferencesTo(currentVS, f))
       /\ \A n \in ResolvedInfos(f) : notificationList[n].Message[2] = Len(f.Spec.Subroutes)

\* a reference "ops/frag" from the namespace shop was resolved to the two
\* sub-routes of the VirtualServerRoute frag of the namespace ops and reported
C10_Witness ==
  /\ Converted
  /\ currentVS.Namespace = Shop
  /\ \E j \in 1..Len(currentVS.Spec.Routes) : currentVS.Spec.Routes[j].Route = CrossRef
  /\ \E f \in Range(virtualServerRoutes) :
        /\ f.Namespace = Ops
        /\ Len(f.Spec.Subroutes) = 2
        /\ Len(ResolvedFrom(f)) >= 2
        /\ \E n \in ResolvedInfos(f) : notificationList[n].Message[2] = 2

\* the positions of the routes of v whose reference names no VirtualServerRoute
MissingReferences(v) ==
  {j \in 1..Len(v.Spec.Routes) : v.Spec.Routes[j].Route # <<>> /\ Referenced(v.Spec.Routes[j], v) = {}}

\* the Warnings about a reference of currentVS that was not found under key
NotFoundWarnings(key) ==
  {n \in NotificationsOf(currentVS) :
      /\ notificationList[n].Type = "Warning"
      /\ notificationList[n].Message[1] = "VirtualServerRoute %s not found, skipping route"
      /\ notificationList[n].Message[2] = key}

\* C11: a route whose reference names no VirtualServerRoute gets one Warning
\* and no resolved route; no error is returned or reported, and the other
\* routes of the VirtualServer are resolved, in their order.
C11_MissingReferenceSkipped ==
  Converted =>
    /\ \A j \in MissingReferences(currentVS) :
          LET key == parseVSRReference(currentVS.Spec.Routes[j].Route, currentVS.Namespace)
          IN Cardinality(NotFoundWarnings(key)) =
                Cardinality({k \in MissingReferences(currentVS) :
                               parseVSRReference(currentVS.Spec.Routes[k].Route, currentVS.Namespace) = key})
    /\ Cardinality({n \in NotificationsOf(currentVS) :
                      notificationList[n].Message[1] = "VirtualServerRoute %s not found, skipping route"}) =
          Cardinality(MissingReferences(currentVS))
    /\ [i \in 1..Len(resolvedRoutes) |-> resolvedRoutes[i].Route] = DeclaredRoutes(currentVS)
    /\ \A n \in NotificationsOf(currentVS) : notificationList[n].Type # "Error"
    /\ ResolveRoutesForVirtualServer(RouteIndex(virtualServerRoutes), currentVS).err = Nil
    /\ errs = <<>>

\* a VirtualServer whose first route names a missing VirtualServerRoute and
\* whose second route is inline: the Warning is there, and so is the route
C11_Witness ==
  /\ Converted
  /\ 1 \in MissingReferences(currentVS)
  /\ Len(currentVS.Spec.Routes) = 2
  /\ currentVS.Spec.Routes[2].Route = <<>>
  /\ Len(resolvedRoutes) = 1
  /\ resolvedRoutes[1].Route = currentVS.Spec.Routes[2]
  /\ NotFoundWarnings(parseVSRReference(currentVS.Spec.Routes[1].Route, currentVS.Namespace)) # {}

\* the positions of the routes of v that carry a reference
ReferringRoutes(v) == {j \in 1..Len(v.Spec.Routes) : v.Spec.Routes[j].Route # <<>>}

\* the notifications the resolver made for currentVS
ResolverNotifications ==
  {n \in NotificationsOf(currentVS) :
      notificationList[n].Message[1] \in {"VirtualServerRoute %s not found, skipping route",
                                          "Resolved %d routes from VirtualServerRoute %s"}}

\* the resolved routes of currentVS are the sub-routes, as they stand, of the
\* fragments its own routes name: none stems from a fragment that only a
\* sub-route names, each lookup left at most one notification
ResolvedOneLevel ==
  /\ Len(resolvedRoutes) = Len(DeclaredRoutes(currentVS))
  /\ \A i \in 1..Len(resolvedRoutes) :
        resolvedRoutes[i].Source.Type = "VirtualServerRoute" =>
           \E j \in ReferringRoutes(currentVS) :
              \E f \in Referenced(currentVS.Spec.Routes[j], currentVS) :
                 /\ f.Namespace = resolvedRoutes[i].Source.Namespace
                 /\ f.Name = resolvedRoutes[i].Source.Name
                 /\ \E k \in 1..Len(f.Spec.Subroutes) : f.Spec.Subroutes[k] = resolvedRoutes[i].Route
  /\ Cardinality(ResolverNotifications) <= Cardinality(ReferringRoutes(currentVS))

\* C12: resolution looks up the reference of each route of the VirtualServer
\* once and goes no further: a sub-route of a fragment stays a route, whatever
\* its own reference names, also when that is its own fragment; and the
\* resolution of a VirtualServer, once begun, comes to its end.
C12_OneLevelAndTerminates ==
  /\ [](Converted => ResolvedOneLevel)
  /\ (pc = "resolve") ~> (pc \in {"rules", "tls"})

\* a route of shop/cafe names ops/frag, whose sub-route /loop names ops/frag
\* again: the sub-route was resolved as a route and not followed
C12_Witness ==
  /\ Converted
  /\ \E j \in ReferringRoutes(currentVS) : currentVS.Spec.Routes[j].Route = CrossRef
  /\ \E i \in 1..Len(resolvedRoutes) :
        /\ resolvedRoutes[i].Route.Route = CrossRef
        /\ resolvedRoutes[i].Source = [Type |-> "VirtualServerRoute", Namespace |-> Ops, Name |-> <<"frag">>]
  /\ Len(resolvedRoutes) = Len(DeclaredRoutes(currentVS))

\* the value holds none of the characters * ^ $ [ ] ( ) . + ? | \
LiteralValue(value) == \A k \in 1..Len(value) : value[k] \notin RegexChars

\* the pattern of a case-insensitive exact match of the value
ExactPattern(value) == <<"(?i)^">> \o QuoteMeta(value) \o <<"$">>

\* the conditions of the match a rule of currentVS was made for
ConditionsOf(rule) ==
  LET route == resolvedRoutes[rule.Origin[1]].Route
  IN IF rule.Origin[2] <= Len(route.Matches) THEN route.Matches[rule.Origin[2]].Conditions ELSE <<>>

\* C13: in every rule made for a match, a header condition and a query
\* condition whose value holds no regular-expression character, of whatever
\* length, became a RegularExpression match of the pattern (?i)^value$, the
\* value escaped.
C13_LiteralValueExactMatch ==
  Converted =>
    \A j \in 1..Len(rules) :
       \A k \in 1..Len(ConditionsOf(rules[j])) :
          LET c == ConditionsOf(rules[j])[k]
          IN (c.Value # <<>> /\ LiteralValue(c.Value)) =>
                /\ c.Header # <<>> =>
                      \E h \in 1..Len(rules[j].Matches[1].Headers) :
                         rules[j].Matches[1].Headers[h] =
                            [Type |-> "RegularExpression", Name |-> c.Header, Value |-> ExactPattern(c.Value)]
                /\ (c.Header = <<>> /\ c.Argument # <<>>) =>
                      \E q \in 1..Len(rules[j].Matches[1].QueryParams) :
                         rules[j].Matches[1].QueryParams[q] =
                            [Type |-> "RegularExpression", Name |-> c.Argument, Value |-> ExactPattern(c.Value)]

\* the action is a redirect: it names no upstream to pass to and has a redirect
IsRedirect(action) == action # Nil /\ Deref(action).Pass = <<>> /\ Deref(action).Redirect # Nil

DeclaredCode(action) == Deref(Deref(action).Redirect).Code

\* the status code a redirect of the declared code is to get
ExpectedStatusCode(code) ==
  IF code = 307 THEN 302
  ELSE IF code = 308 THEN 301
  ELSE IF code = 0 THEN 301
  ELSE code

\* the match, or the route, a rule of currentVS was made for
HolderOf(rule) == Holder(resolvedRoutes[rule.Origin[1]].Route, rule.Origin[2])

RedirectFilters(filters) == SelectIdx(filters, [f \in 1..Len(filters) |-> filters[f].Type = "RequestRedirect"], 1)

\* the splits of a holder that redirect and are not skipped
RedirectSplits(holder) ==
  SelectIdx(holder.Splits,
            [k \in 1..Len(holder.Splits) |-> holder.Splits[k].Weight # 0 /\ IsRedirect(holder.Splits[k].Action)], 1)

\* the backend references of a rule that carry a redirect filter
RedirectRefs(rule) ==
  SelectIdx(rule.BackendRefs,
            [b \in 1..Len(rule.BackendRefs) |-> Len(RedirectFilters(rule.BackendRefs[b].Filters)) > 0], 1)

\* C14: in every rule, the redirect of its route or match gave one redirect
\* filter, each redirecting split one backend reference with one redirect
\* filter, and the status code of each is 302 for a declared 307, 301 for a
\* declared 308, 301 for none declared, else the declared code.
C14_RedirectStatusCode ==
  Converted =>
    \A j \in 1..Len(rules) :
       /\ [f \in 1..Len(RedirectFilters(rules[j].Filters)) |-> RedirectFilters(rules[j].Filters)[f].StatusCode] =
             IF IsRedirect(HolderOf(rules[j]).Action)
             THEN <<ExpectedStatusCode(DeclaredCode(HolderOf(rules[j]).Action))>>
             ELSE <<>>
       /\ [b \in 1..Len(RedirectRefs(rules[j])) |->
              [f \in 1..Len(RedirectRefs(rules[j])[b].Filters) |-> RedirectRefs(rules[j])[b].Filters[f].StatusCode]] =
             [k \in 1..Len(RedirectSplits(HolderOf(rules[j]))) |->
                <<ExpectedStatusCode(DeclaredCode(RedirectSplits(HolderOf(rules[j]))[k].Action))>>]

\* a route with a redirect 307 in a match, a redirect 308 of its own and a
\* redirect of no code in a split was converted: the filters carry 302, 301, 301
C14_Witness ==
  /\ Converted
  /\ \E j, k \in 1..Len(rules) :
        /\ rules[j].Origin[1] = rules[k].Origin[1]
        /\ rules[j].Origin[2] < rules[k].Origin[2]
        /\ IsRedirect(HolderOf(rules[j]).Action) /\ DeclaredCode(HolderOf(rules[j]).Action) = 307
        /\ IsRedirect(HolderOf(rules[k]).Action) /\ DeclaredCode(HolderOf(rules[k]).Action) = 308
        /\ Len(RedirectSplits(HolderOf(rules[k]))) = 1
        /\ DeclaredCode(RedirectSplits(HolderOf(rules[k]))[1].Action) = 0
        /\ RedirectFilters(rules[j].Filters)[1].StatusCode = 302
        /\ RedirectFilters(rules[k].Filters)[1].StatusCode = 301
        /\ RedirectRefs(rules[k])[1].Filters[1].StatusCode = 301

\* the key of the redirect route of a VirtualServer
RedirectRouteKey(v) == NamespacedName(v.Namespace, v.Name \o <<"redirect">>)

\* the names of the HTTP listeners the returned Gateway of v's namespace has for v's host
HTTPListenerNames(v) ==
  LET key == NamespacedName(v.Namespace, v.Namespace \o <<"gateway">>)
      gateways == Deref(result).ir.Gateways
  IN IF HasKey(gateways, key)
     THEN {gateways[key].Listeners[l].Name : l \in {l \in 1..Len(gateways[key].Listeners) :
             /\ gateways[key].Listeners[l].Protocol = "HTTP"
             /\ gateways[key].Listeners[l].Hostname = v.Spec.Host}}
     ELSE {}

\* the status code the redirect route of v is to carry
TLSRedirectCode(v) ==
  IF Deref(Deref(v.Spec.TLS).Redirect).Code = Nil THEN 301
  ELSE Deref(Deref(Deref(v.Spec.TLS).Redirect).Code)

\* C15: a VirtualServer (with a host) whose TLS redirect is enabled has in the
\* returned IR the HTTPRoute <name>-redirect: one rule, matching the path
\* prefix /, with one redirect filter of the configured code, 301 when none is
\* configured, attached to the HTTP listener of its host; a VirtualServer
\* whose TLS redirect is not enabled has no such route.
C15_TLSRedirectRoute ==
  pc = "done" =>
    \A i \in 1..Len(virtualServers) :
       LET v == virtualServers[i]
           routes == Deref(result).ir.HTTPRoutes
       IN v.Spec.Host # <<>> =>
            IF TLSRedirectEnabled(v)
            THEN /\ HasKey(routes, RedirectRouteKey(v))
                 /\ Len(routes[RedirectRouteKey(v)].Rules) = 1
                 /\ routes[RedirectRouteKey(v)].Rules[1].Matches =
                       <<[Path |-> [Type |-> "PathPrefix", Value |-> <<"/">>], Headers |-> <<>>, QueryParams |-> <<>>]>>
                 /\ Len(routes[RedirectRouteKey(v)].Rules[1].Filters) = 1
                 /\ routes[RedirectRouteKey(v)].Rules[1].Filters[1].Type = "RequestRedirect"
                 /\ routes[RedirectRouteKey(v)].Rules[1].Filters[1].StatusCode = Ptr(TLSRedirectCode(v))
                 /\ Len(routes[RedirectRouteKey(v)].ParentRefs) = 1
                 /\ routes[RedirectRouteKey(v)].ParentRefs[1].Name = v.Namespace \o <<"gateway">>
                 /\ routes[RedirectRouteKey(v)].ParentRefs[1].SectionName \in HTTPListenerNames(v)
            ELSE ~HasKey(routes, RedirectRouteKey(v))

\* the keys of the routes of the map routes that the converter made for v: the
\* routes labelled with v's name in v's namespace, the TLS redirect route aside
RouteKeysOf(routes, v) ==
  {k \in DOMAIN routes : /\ routes[k].Namespace = v.Namespace
                         /\ routes[k].VSName = v.Name
                         /\ k # RedirectRouteKey(v)}

\* C16: when ConvertToRoutes has returned for a VirtualServer, the HTTPRoute
\* <name>-httproute exists exactly when the VirtualServer has an HTTP rule and
\* the GRPCRoute <name>-grpcroute exactly when it has a gRPC rule, it has no
\* other HTTPRoute or GRPCRoute, and when both exist they have the same parent
\* references and the same hostname.
C16_OneRoutePerProtocol ==
  Converted =>
    LET v == currentVS
        httpKey == NamespacedName(v.Namespace, v.Name \o <<"httproute">>)
        grpcKey == NamespacedName(v.Namespace, v.Name \o <<"grpcroute">>)
    IN /\ HasKey(httpRouteMap, httpKey) <=> Len(httpRules) > 0
       /\ HasKey(grpcRouteMap, grpcKey) <=> Len(grpcRules) > 0
       /\ RouteKeysOf(httpRouteMap, v) \subseteq {httpKey}
       /\ RouteKeysOf(grpcRouteMap, v) \subseteq {grpcKey}
       /\ HasKey(httpRouteMap, httpKey) => httpRouteMap[httpKey].Rules = httpRules
       /\ HasKey(grpcRouteMap, grpcKey) => grpcRouteMap[grpcKey].Rules = grpcRules
       /\ HasKey(httpRouteMap, httpKey) /\ HasKey(grpcRouteMap, grpcKey) =>
             /\ httpRouteMap[httpKey].ParentRefs = grpcRouteMap[grpcKey].ParentRefs
             /\ httpRouteMap[httpKey].ParentRefs # <<>>
             /\ httpRouteMap[httpKey].Hostnames = grpcRouteMap[grpcKey].Hostnames
             /\ httpRouteMap[httpKey].Hostnames = <<v.Spec.Host>>

\* a VirtualServer with HTTP rules and gRPC rules has both routes
C16_Witness ==
  /\ Converted
  /\ Len(httpRules) > 0 /\ Len(grpcRules) > 0
  /\ HasKey(httpRouteMap, NamespacedName(currentVS.Namespace, currentVS.Name \o <<"httproute">>))
  /\ HasKey(grpcRouteMap, NamespacedName(currentVS.Namespace, currentVS.Name \o <<"grpcroute">>))

\* the keys of the BackendTLSPolicies the upstreams of v would get
PolicyKeysOf(v) ==
  {GeneratePolicyKey(v.Namespace, GenerateBackendTLSPolicyName(v.Spec.Upstreams[u].Service, v.Spec.Upstreams[u].Name)) :
     u \in 1..Len(v.Spec.Upstreams)}

\* the input resources of the namespace ns that are converted
ConvertedIn(ns) ==
  {i \in 1..Len(virtualServers) : virtualServers[i].Namespace = ns /\ virtualServers[i].Spec.Host # <<>>}

\* C17: in the returned result a VirtualServer without a host has exactly one
\* notification, the Warning that it is skipped, and nothing else: no route of
\* any kind carries its name, none of its upstreams has a BackendTLSPolicy, no
\* Gateway has an HTTP or HTTPS listener without a hostname, and its namespace
\* has no Gateway when it holds no other resource; when it is the only input,
\* the result has no Gateway, no HTTPRoute and that one Warning.
C17_NoHostSkipped ==
  pc = "done" =>
    LET ir == Deref(result).ir
        returned == Deref(result).notificationList
    IN \A i \in 1..Len(virtualServers) :
         LET v == virtualServers[i]
         IN v.Spec.Host = <<>> =>
              /\ ReturnedFor(v) =
                    addNotification("Warning", <<"VirtualServer has no host specified, skipping">>, v)
              /\ \A k \in DOMAIN ir.HTTPRoutes :
                    ~(ir.HTTPRoutes[k].Namespace = v.Namespace /\ ir.HTTPRoutes[k].VSName = v.Name)
              /\ \A k \in DOMAIN ir.GRPCRoutes :
                    ~(ir.GRPCRoutes[k].Namespace = v.Namespace /\ ir.GRPCRoutes[k].VSName = v.Name)
              /\ PolicyKeysOf(v) \cap DOMAIN ir.BackendTLSPolicies = {}
              /\ \A k \in DOMAIN ir.Gateways : \A l \in 1..Len(ir.Gateways[k].Listeners) :
                    ir.Gateways[k].Listeners[l].Protocol \in {"HTTP", "HTTPS"} =>
                       ir.Gateways[k].Listeners[l].Hostname # <<>>
              /\ (ConvertedIn(v.Namespace) = {} /\ \A t \in 1..Len(transportServers) :
                                                       transportServers[t].Namespace # v.Namespace) =>
                    ~HasKey(ir.Gateways, NamespacedName(v.Namespace, v.Namespace \o <<"gateway">>))
              /\ (Len(virtualServers) = 1 /\ transportServers = <<>>) =>
                    /\ DOMAIN ir.Gateways = {}
                    /\ DOMAIN ir.HTTPRoutes = {}
                    /\ Len(returned) = 1
                    /\ returned[1].Type = "Warning"

\* a VirtualServer without a host, with two upstreams, two routes, TLS with
\* redirect and gunzip, is skipped next to a VirtualServer that is converted
C17_Witness ==
  /\ pc = "done"
  /\ \E i, j \in 1..Len(virtualServers) :
        /\ virtualServers[i].Spec.Host = <<>>
        /\ Len(virtualServers[i].Spec.Routes) = 2 /\ Len(virtualServers[i].Spec.Upstreams) = 2
        /\ TLSRedirectEnabled(virtualServers[i])
        /\ ReturnedFor(virtualServers[i]) # <<>>
        /\ virtualServers[j].Namespace = virtualServers[i].Namespace
        /\ HasKey(Deref(result).ir.HTTPRoutes, HTTPRouteKey(virtualServers[j]))

\* the unsupported top-level fields that v sets
FieldsSet(v) ==
  {f \in UnsupportedFields :
     CASE f = "gunzip" -> v.Spec.Gunzip
       [] f = "externalDNS" -> v.Spec.ExternalDNS.Enable
       [] f = "dos" -> v.Spec.Dos # ""
       [] f = "policies" -> Len(v.Spec.Policies) > 0
       [] f = "internalRoute" -> v.Spec.InternalRoute
       [] f = "http-snippets" -> v.Spec.HTTPSnippets # ""
       [] f = "server-snippets" -> v.Spec.ServerSnippets # ""}

\* the positions of the returned notifications of v that are Warnings about an unsupported field
FieldWarnings(v) ==
  {n \in 1..Len(ReturnedFor(v)) :
     /\ ReturnedFor(v)[n].Type = "Warning"
     /\ ReturnedFor(v)[n].Message[1] = "VirtualServer field '%s' is not supported in Gateway API conversion"}

\* C18: for every VirtualServer with a host the returned notifications hold
\* exactly one unsupported-field Warning per unsupported field it sets, naming
\* that field, and none for a field it does not set; its routes are converted
\* all the same; the VirtualServer that sets all seven fields and has nothing
\* else to warn about has exactly 7 Warnings.
C18_OneWarningPerUnsupportedField ==
  pc = "done" =>
    \A i \in 1..Len(virtualServers) :
       LET v == virtualServers[i]
       IN v.Spec.Host # <<>> =>
            /\ \A f \in UnsupportedFields :
                  Cardinality({n \in FieldWarnings(v) : ReturnedFor(v)[n].Message[2] = f}) =
                     IF f \in FieldsSet(v) THEN 1 ELSE 0
            /\ Cardinality(FieldWarnings(v)) = Cardinality(FieldsSet(v))
            /\ Len(Alone(v).httpRules) > 0 => HasKey(Deref(result).ir.HTTPRoutes, HTTPRouteKey(v))
            /\ Len(Alone(v).grpcRules) > 0 => HasKey(Deref(result).ir.GRPCRoutes, GRPCRouteKey(v))
            /\ v.Name = LegacyVirtualServer.Name =>
                  Cardinality({n \in 1..Len(ReturnedFor(v)) : ReturnedFor(v)[n].Type = "Warning"}) =
                     Cardinality(FieldsSet(v))

\* the VirtualServer with all seven fields set has its 7 Warnings and its HTTPRoute
C18_Witness ==
  /\ pc = "done"
  /\ Len(virtualServers) = 1
  /\ FieldsSet(virtualServers[1]) = UnsupportedFields
  /\ Len(virtualServers[1].Spec.Policies) = 1
  /\ Cardinality({n \in 1..Len(Deref(result).notificationList) :
                    Deref(result).notificationList[n].Type = "Warning"}) = 7
  /\ HasKey(Deref(result).ir.HTTPRoutes, HTTPRouteKey(virtualServers[1]))

\* the returned notifications of the type t
ReturnedOfType(t) ==
  {n \in 1..Len(Deref(result).notificationList) : Deref(result).notificationList[n].Type = t}

\* C19: the conversion of the web shop alone returns exactly 1 Gateway, exactly
\* 2 HTTPRoutes, the main one and the redirect one, at least 1
\* BackendTLSPolicy, exactly 1 Warning, the notice that the BackendTLSPolicy
\* needs manual configuration, and at least 1 Info.
C19_ECommerceScenario ==
  (pc = "done" /\ virtualServers = <<ECommerceVirtualServer>>) =>
    LET ir == Deref(result).ir
        returned == Deref(result).notificationList
    IN /\ Cardinality(DOMAIN ir.Gateways) = 1
       /\ DOMAIN ir.HTTPRoutes = {HTTPRouteKey(ECommerceVirtualServer), RedirectRouteKey(ECommerceVirtualServer)}
       /\ Cardinality(DOMAIN ir.BackendTLSPolicies) >= 1
       /\ Cardinality(ReturnedOfType("Warning")) = 1
       /\ \A n \in ReturnedOfType("Warning") :
             returned[n] \in Range(processUpstreamTLSPolicies(ECommerceVirtualServer).notifs)
       /\ Cardinality(ReturnedOfType("Info")) >= 1

\* the web shop is converted: its main route has the rule of the header match,
\* with the path rewrite and the request header, before the rules of the routes
C19_Witness ==
  /\ pc = "done"
  /\ virtualServers = <<ECommerceVirtualServer>>
  /\ LET main == Deref(result).ir.HTTPRoutes[HTTPRouteKey(ECommerceVirtualServer)]
     IN /\ Len(main.Rules) = 3
        /\ \E r \in 1..Len(main.Rules) :
              /\ \E f \in 1..Len(main.Rules[r].Filters) : main.Rules[r].Filters[f].Type = "URLRewrite"
              /\ \E f \in 1..Len(main.Rules[r].Filters) : main.Rules[r].Filters[f].Type = "RequestHeaderModifier"
  /\ Cardinality(DOMAIN Deref(result).ir.BackendTLSPolicies) = 1
  /\ Cardinality(ReturnedOfType("Info")) = 2

\* the TransportServer name in a message of the TransportServer conversion: the
\* last argument of the messages that end in the name, the first of the others
NamedTransportServer(message) ==
  IF message[1] \in {"Upstream '%s' not found in TransportServer '%s'",
                     "Created %s '%s' for TransportServer '%s'",
                     "Unsupported protocol '%s' in TransportServer '%s'"}
  THEN message[Len(message)]
  ELSE message[2]

\* the returned notifications about the TransportServer t
ReturnedForTS(t) ==
  SelectIdx(Deref(result).notificationList,
            [n \in 1..Len(Deref(result).notificationList) |->
               /\ Deref(result).notificationList[n].Object = NoObject
               /\ NamedTransportServer(Deref(result).notificationList[n].Message) = t.Name], 1)

\* the keys of the routes of the map routes made for the TransportServer t
L4RouteKeysOf(routes, t) ==
  {k \in DOMAIN routes : routes[k].Namespace = t.Namespace /\ routes[k].TSName = t.Name}

\* the Warning of the check that skips t
SkipWarning(t) ==
  IF t.Spec.Listener.Name = "" \/ t.Spec.Listener.Protocol = ""
  THEN Notification("Warning",
         <<"TransportServer '%s' skipped: listener field is required but not specified", t.Name>>, NoObject)
  ELSE Notification("Warning",
         <<"TransportServer '%s' skipped: listener '%s' not found in GlobalConfiguration",
           t.Name, t.Spec.Listener.Name>>, NoObject)

\* the listener protocols that have a route kind
L4Protocols == {"TCP", "TLS_PASSTHROUGH", "UDP"}

\* the route map the protocol of t selects
RoutesOfProtocol(ir, t) ==
  CASE t.Spec.Listener.Protocol = "TCP" -> ir.TCPRoutes
    [] t.Spec.Listener.Protocol = "TLS_PASSTHROUGH" -> ir.TLSRoutes
    [] t.Spec.Listener.Protocol = "UDP" -> ir.UDPRoutes

\* C20: in the returned result a TransportServer without a listener name or
\* protocol, or whose listener the listener map does not hold, has exactly one
\* notification, the Warning of its skip, and no TCPRoute, TLSRoute or
\* UDPRoute; every other TransportServer, one that follows a skipped one in
\* its namespace included, has its route.
C20_TransportServerSkipped ==
  pc = "done" =>
    LET ir == Deref(result).ir
    IN \A i \in 1..Len(transportServers) :
         LET t == transportServers[i]
         IN IF Convertible(t)
            THEN t.Spec.Listener.Protocol \in L4Protocols =>
                    Cardinality(L4RouteKeysOf(RoutesOfProtocol(ir, t), t)) = 1
            ELSE /\ ReturnedForTS(t) = <<SkipWarning(t)>>
                 /\ L4RouteKeysOf(ir.TCPRoutes, t) = {}
                 /\ L4RouteKeysOf(ir.TLSRoutes, t) = {}
                 /\ L4RouteKeysOf(ir.UDPRoutes, t) = {}

\* a TransportServer whose listener is unknown is skipped and the
\* TransportServer after it in the same namespace has its TCPRoute
C20_Witness ==
  /\ pc = "done"
  /\ Len(transportServers) = 2
  /\ transportServers[1].Namespace = transportServers[2].Namespace
  /\ transportServers[1].Spec.Listener.Name # "" /\ transportServers[1].Spec.Listener.Protocol # ""
  /\ ~Convertible(transportServers[1])
  /\ Convertible(transportServers[2])
  /\ ReturnedForTS(transportServers[1]) = <<SkipWarning(transportServers[1])>>
  /\ L4RouteKeysOf(Deref(result).ir.TCPRoutes, transportServers[2]) # {}

\* the key of the route of the TransportServer t with the name suffix
L4RouteKey(t, suffix) == NamespacedName(t.Namespace, t.Name \o <<suffix>>)

\* C21: in the returned result every TransportServer that passed the listener
\* checks has the route its protocol selects and no other: TCP the TCPRoute
\* <name>-tcproute, TLS_PASSTHROUGH the TLSRoute <name>-tlsroute, whose
\* hostnames are the declared host (none when no host is declared), UDP the
\* UDPRoute <name>-udproute; any other protocol gives no route and the Error
\* notification that the protocol is unsupported.
C21_ProtocolDispatch ==
  pc = "done" =>
    LET ir == Deref(result).ir
    IN \A i \in 1..Len(transportServers) :
         LET t == transportServers[i]
             protocol == t.Spec.Listener.Protocol
         IN Convertible(t) =>
              /\ L4RouteKeysOf(ir.TCPRoutes, t) = IF protocol = "TCP" THEN {L4RouteKey(t, "tcproute")} ELSE {}
              /\ L4RouteKeysOf(ir.TLSRoutes, t) =
                    IF protocol = "TLS_PASSTHROUGH" THEN {L4RouteKey(t, "tlsroute")} ELSE {}
              /\ L4RouteKeysOf(ir.UDPRoutes, t) = IF protocol = "UDP" THEN {L4RouteKey(t, "udproute")} ELSE {}
              /\ protocol = "TLS_PASSTHROUGH" =>
                    ir.TLSRoutes[L4RouteKey(t, "tlsroute")].Hostnames =
                       IF t.Spec.Host # <<>> THEN <<t.Spec.Host>> ELSE <<>>
              /\ protocol \notin L4Protocols =>
                    ReturnedForTS(t) =
                       <<Notification("Error", <<"Unsupported protocol '%s' in TransportServer '%s'",
                                                 protocol, t.Name>>, NoObject)>>

\* a TLS passthrough with a host has its TLSRoute with the SNI hostname and a
\* TransportServer of an unknown protocol on a configured listener has no route
C21_Witness ==
  /\ pc = "done"
  /\ \E i, j \in 1..Len(transportServers) :
        /\ Convertible(transportServers[i]) /\ Convertible(transportServers[j])
        /\ transportServers[i].Spec.Listener.Protocol = "TLS_PASSTHROUGH"
        /\ Deref(result).ir.TLSRoutes[L4RouteKey(transportServers[i], "tlsroute")].Hostnames =
              <<<<"secure", "example", "com">>>>
        /\ transportServers[j].Spec.Listener.Protocol \notin L4Protocols
        /\ ReturnedForTS(transportServers[j]) # <<>>

\* the positions of the upstreams of t that the action of t names
NamedTSUpstreams(t) ==
  {u \in 1..Len(t.Spec.Upstreams) : t.Spec.Upstreams[u].Name = Deref(t.Spec.Action).Pass}

\* the route of t in the returned IR
L4RouteOf(t) == LET routes == RoutesOfProtocol(Deref(result).ir, t)
                IN routes[CHOOSE k \in L4RouteKeysOf(routes, t) : TRUE]

\* C22: in the returned result, a converted TransportServer whose action
\* names an upstream that its list does not hold has its route, with one rule
\* without backend references, and the Error that the upstream was not found;
\* one whose action names an upstream of the list has its route with exactly
\* one backend reference, to the service and port of that upstream, and no
\* such Error.
C22_BackendReference ==
  pc = "done" =>
    \A i \in 1..Len(transportServers) :
       LET t == transportServers[i]
           notFound == Notification("Error", <<"Upstream '%s' not found in TransportServer '%s'",
                                               Deref(t.Spec.Action).Pass, t.Name>>, NoObject)
       IN (/\ Convertible(t)
           /\ t.Spec.Listener.Protocol \in L4Protocols
           /\ t.Spec.Action # Nil /\ Deref(t.Spec.Action).Pass # <<>>) =>
             /\ L4RouteKeysOf(RoutesOfProtocol(Deref(result).ir, t), t) # {}
             /\ Len(L4RouteOf(t).Rules) = 1
             /\ IF NamedTSUpstreams(t) = {}
                THEN /\ L4RouteOf(t).Rules[1].BackendRefs = <<>>
                     /\ Cardinality({n \in 1..Len(ReturnedForTS(t)) : ReturnedForTS(t)[n] = notFound}) = 1
                ELSE /\ Len(L4RouteOf(t).Rules[1].BackendRefs) = 1
                     /\ \E u \in NamedTSUpstreams(t) :
                           /\ L4RouteOf(t).Rules[1].BackendRefs[1].Name = t.Spec.Upstreams[u].Service
                           /\ L4RouteOf(t).Rules[1].BackendRefs[1].Port = t.Spec.Upstreams[u].Port
                           /\ L4RouteOf(t).Rules[1].BackendRefs[1].Namespace = t.Namespace
                     /\ \A n \in 1..Len(ReturnedForTS(t)) : ReturnedForTS(t)[n].Type # "Error"

\* a TransportServer with two upstreams whose action names neither has its
\* TCPRoute without backend references, next to one whose action names the
\* second upstream of its list
C22_Witness ==
  /\ pc = "done"
  /\ \E i, j \in 1..Len(transportServers) :
        /\ Convertible(transportServers[i]) /\ Convertible(transportServers[j])
        /\ Len(transportServers[i].Spec.Upstreams) = 2
        /\ NamedTSUpstreams(transportServers[i]) = {}
        /\ L4RouteOf(transportServers[i]).Rules[1].BackendRefs = <<>>
        /\ NamedTSUpstreams(transportServers[j]) = {2}
        /\ L4RouteOf(transportServers[j]).Rules[1].BackendRefs[1].Port = 5433

\* the split groups of the resolved routes of currentVS, <<i, m>>: the splits
\* of a match that has an action and the splits of the route itself
SplitGroups ==
  {g \in UNION {{<<i, m>> : m \in 1..(Len(resolvedRoutes[i].Route.Matches) + 1)} : i \in 1..Len(resolvedRoutes)} :
     /\ Len(Holder(resolvedRoutes[g[1]].Route, g[2]).Splits) > 0
     /\ g[2] <= Len(resolvedRoutes[g[1]].Route.Matches) => resolvedRoutes[g[1]].Route.Matches[g[2]].Action # Nil}

\* the action of a split resolves: it is a redirect, or it names, by pass or by
\* proxy, an upstream that the owner of the route declares
SplitResolves(rr, split) ==
  /\ split.Action # Nil
  /\ \/ Deref(split.Action).Pass = <<>> /\ Deref(split.Action).Redirect # Nil
     \/ /\ NamedUpstream(Deref(split.Action)) # <<>>
        /\ findUpstream(OwnerUpstreams(rr), NamedUpstream(Deref(split.Action))) # Nil

RECURSIVE ExpectedSplitRefs(_, _)
\* <<name, weight>> of the backend references the splits have to add, in order
ExpectedSplitRefs(rr, splits) ==
  IF splits = <<>> THEN <<>>
  ELSE (IF Head(splits).Weight # 0 /\ SplitResolves(rr, Head(splits))
        THEN <<<<NamedUpstream(Deref(Head(splits).Action)), Head(splits).Weight>>>>
        ELSE <<>>) \o ExpectedSplitRefs(rr, Tail(splits))

RECURSIVE WeightedRefs(_)
\* <<name, weight>> of the backend references of a list that carry a weight
WeightedRefs(refs) ==
  IF refs = <<>> THEN <<>>
  ELSE (IF Head(refs).Weight # Nil THEN <<<<Head(refs).Name, Deref(Head(refs).Weight)>>>> ELSE <<>>)
       \o WeightedRefs(Tail(refs))

\* the Infos about converted traffic splits among the notifications of currentVS
SplitInfos ==
  {n \in NotificationsOf(currentVS) :
     /\ notificationList[n].Type = "Info"
     /\ notificationList[n].Message = <<"Traffic splitting configuration converted to weighted backend refs">>}

\* C23: when ConvertToRoutes has returned for a VirtualServer, every split
\* group of its resolved routes has its rule, whose weighted backend references
\* are, in declaration order, one per split that has an action, a non-zero
\* weight and an action that resolves, each with the weight of its split; and
\* the notifications hold exactly one Info about converted traffic splits per
\* split group.
C23_SplitGroups ==
  (Converted /\ Len(resolvedRoutes) > 0) =>
    /\ \A g \in SplitGroups :
          /\ \E r \in 1..Len(rules) : rules[r].Origin = g
          /\ \A r \in 1..Len(rules) :
                rules[r].Origin = g =>
                   WeightedRefs(rules[r].BackendRefs) =
                      ExpectedSplitRefs(resolvedRoutes[g[1]], Holder(resolvedRoutes[g[1]].Route, g[2]).Splits)
    /\ Cardinality(SplitInfos) = Cardinality(SplitGroups)

\* the upstream passes the validation: it has a service and a port
ValidUpstream(up) == up.Service # <<>> /\ up.Port # 0

\* the key of the BackendTLSPolicy of the upstream up of v
PolicyKeyOf(v, up) == GeneratePolicyKey(v.Namespace, GenerateBackendTLSPolicyName(up.Service, up.Name))

\* the keys of the policies that the valid TLS-enabled upstreams of the
\* VirtualServers with a host have
DuePolicyKeys ==
  UNION {{PolicyKeyOf(virtualServers[i], virtualServers[i].Spec.Upstreams[u]) :
            u \in {u \in 1..Len(virtualServers[i].Spec.Upstreams) :
                     /\ virtualServers[i].Spec.Upstreams[u].TLS.Enable
                     /\ ValidUpstream(virtualServers[i].Spec.Upstreams[u])}} :
         i \in {i \in 1..Len(virtualServers) : virtualServers[i].Spec.Host # <<>>}}

\* the returned Warnings of v that the policy of this name needs manual configuration
ManualConfigurationWarnings(v, policyName) ==
  {n \in 1..Len(ReturnedFor(v)) :
     ReturnedFor(v)[n] = Notification("Warning",
                           <<"BackendTLSPolicy '%s' created but requires manual configuration", policyName>>,
                           ObjRef(v))}

\* C24: in the returned result, every valid TLS-enabled upstream of a
\* VirtualServer with a host has its BackendTLSPolicy, which targets the
\* upstream's service and has no validation hostname and no CA, and the
\* VirtualServer has exactly one Warning that this policy needs manual
\* configuration; an upstream that is not TLS-enabled, or not valid, has no such
\* Warning, and the IR holds no policy besides those of the former upstreams.
C24_BackendTLSPolicies ==
  pc = "done" =>
    LET policies == Deref(result).ir.BackendTLSPolicies
    IN /\ DOMAIN policies = DuePolicyKeys
       /\ \A i \in 1..Len(virtualServers) :
             LET v == virtualServers[i]
             IN v.Spec.Host # <<>> =>
                  \A u \in 1..Len(v.Spec.Upstreams) :
                     LET up == v.Spec.Upstreams[u]
                         policyName == GenerateBackendTLSPolicyName(up.Service, up.Name)
                     IN IF up.TLS.Enable /\ ValidUpstream(up)
                        THEN /\ HasKey(policies, PolicyKeyOf(v, up))
                             /\ policies[PolicyKeyOf(v, up)].Name = policyName
                             /\ policies[PolicyKeyOf(v, up)].TargetRefs = <<[Kind |-> "Service", Name |-> up.Service]>>
                             /\ policies[PolicyKeyOf(v, up)].Validation.Hostname = <<>>
                             /\ policies[PolicyKeyOf(v, up)].Validation.CACertificateRefs = <<>>
                             /\ policies[PolicyKeyOf(v, up)].Validation.WellKnownCACertificates = Nil
                             /\ Cardinality(ManualConfigurationWarnings(v, policyName)) = 1
                        ELSE ManualConfigurationWarnings(v, policyName) = {}

\* the namespaces that hold a VirtualServer with a host or a TransportServer
GatewayNamespaces ==
  {virtualServers[i].Namespace : i \in {i \in 1..Len(virtualServers) : virtualServers[i].Spec.Host # <<>>}} \cup
  {transportServers[i].Namespace : i \in 1..Len(transportServers)}

\* the listeners that the VirtualServers with a host and the TransportServers
\* of the namespace need
ListenersDue(ns) ==
  UNION {Range(VSListeners(virtualServers[i])) :
           i \in {i \in 1..Len(virtualServers) :
                    virtualServers[i].Namespace = ns /\ virtualServers[i].Spec.Host # <<>>}} \cup
  UNION {Range(TSListeners(transportServers[i], BuildListenerMap(globalConfiguration))) :
           i \in {i \in 1..Len(transportServers) : transportServers[i].Namespace = ns}}

\* the Gateways of the namespace in the map
GatewaysIn(gateways, ns) == {k \in DOMAIN gateways : gateways[k].Namespace = ns}

ProxySites ==
  {s \in AllSites :
     /\ s[3] = 0
     /\ RulesAt(rules, s[1], s[2]) # {}
     /\ LET a == SiteAction(resolvedRoutes[s[1]].Route, <<s[2], s[3]>>)
        IN /\ a.Pass = <<>> /\ a.Redirect = Nil /\ a.Return = Nil /\ a.Proxy # Nil
           /\ Deref(a.Proxy).Upstream # <<>>
           /\ findUpstream(resolvedRoutes[s[1]].VirtualServer.Spec.Upstreams, Deref(a.Proxy).Upstream) # Nil}

SiteRewritePath(s) == Deref(SiteAction(resolvedRoutes[s[1]].Route, <<s[2], s[3]>>).Proxy).RewritePath

\* the list longer starts with the list shorter
Extends(longer, shorter) ==
  /\ Len(shorter) <= Len(longer)
  /\ \A n \in 1..Len(shorter) : longer[n] = shorter[n]

\* the notifications that createPathRewriteFilter created at the proxy sites of
\* currentVS are in the list
PathRewriteNotificationsKept ==
  \A s \in ProxySites :
     SiteRewritePath(s) # <<>> =>
        \A c \in Range(createPathRewriteFilter(SiteRewritePath(s), resolvedRoutes[s[1]].VirtualServer).collected) :
           \E n \in 1..Len(notificationList) : notificationList[n] = c

\* C26: within one call every step leaves the notification list an extension of
\* what it was; the notifications that the path-rewrite component created for a
\* converted VirtualServer are in the list; the call returns the list.
C26_NotificationListOnlyGrows ==
  /\ [][run' = run => Extends(notificationList', notificationList)]_vars
  /\ [](Converted => PathRewriteNotificationsKept)
  /\ [](pc = "done" => Deref(result).notificationList = notificationList)

\* the URL-rewrite filters of the rule
URLRewriteFilters(rule) == SelectSeq(rule.Filters, LAMBDA f : f.Type = "URLRewrite")

\* the filter and the Info that the claim gives a rewrite path
ExpectedRewrite(rewritePath) ==
  IF HasPrefix(rewritePath, "/")
  THEN [filter |-> [Type |-> "URLRewrite", PathType |-> "ReplaceFullPath", Value |-> rewritePath],
        info |-> "Path rewrite converted to FullPath replacement"]
  ELSE IF rewritePath = <<>>
  THEN [filter |-> [Type |-> "URLRewrite", PathType |-> "ReplacePrefixMatch", Value |-> <<"/">>],
        info |-> "Empty path rewrite converted to prefix removal"]
  ELSE [filter |-> [Type |-> "URLRewrite", PathType |-> "ReplacePrefixMatch", Value |-> rewritePath],
        info |-> "Path rewrite converted to prefix replacement"]

\* the rule of the proxy site s has the one URL-rewrite filter of its rewrite
\* path, and currentVS has the Info of that case
RewrittenAsExpected(s) ==
  /\ \A j \in RulesAt(rules, s[1], s[2]) :
        URLRewriteFilters(rules[j]) = <<ExpectedRewrite(SiteRewritePath(s)).filter>>
  /\ \E n \in NotificationsOf(currentVS) :
        notificationList[n] = Notification("Info", <<ExpectedRewrite(SiteRewritePath(s)).info>>,
                                           ObjRef(currentVS))

AnnotationProcessed ==
  /\ annotationPC = "done"
  /\ Deref(ingress).Annotations.grpcServices # Nil
  /\ Deref(ingress).Annotations.grpcServices # Ptr(EmptyString)

\* the services that the annotation of the Ingress lists
ListedGRPCServices == ParseServices(Deref(Deref(ingress).Annotations.grpcServices))

\* the positions of the rules of the Ingress that have HTTP paths
HTTPRulesOfIngress ==
  {r \in 1..Len(Deref(ingress).Spec.Rules) : Deref(ingress).Spec.Rules[r].HTTP # Nil}

PathsOfRule(r) == Deref(Deref(ingress).Spec.Rules[r].HTTP).Paths

RouteKeyOfRule(r) ==
  NamespacedName(Deref(ingress).Namespace, RouteName(Deref(ingress).Name, Deref(ingress).Spec.Rules[r].Host))

\* the HTTPRoute under the key of rule r still has the rule that path p had
\* when the annotation was called, filters included
RoutedByHTTPRoute(r, p) ==
  /\ HasKey(Deref(ingressIR).HTTPRoutes, RouteKeyOfRule(r))
  /\ \E j \in 1..Len(Deref(ingressIR).HTTPRoutes[RouteKeyOfRule(r)].Rules) :
        Deref(ingressIR).HTTPRoutes[RouteKeyOfRule(r)].Rules[j] =
           Deref(irAtCall).HTTPRoutes[RouteKeyOfRule(r)].Rules[p]

\* the GRPCRoute under the key of rule r has a rule to the service of path p
\* with the match of that path
RoutedByGRPCRoute(r, p) ==
  /\ HasKey(Deref(ingressIR).GRPCRoutes, RouteKeyOfRule(r))
  /\ \E j \in 1..Len(Deref(ingressIR).GRPCRoutes[RouteKeyOfRule(r)].Rules) :
        LET rule == Deref(ingressIR).GRPCRoutes[RouteKeyOfRule(r)].Rules[j]
        IN /\ rule.BackendRefs[1].Name = PathsOfRule(r)[p].Backend.Service.Name
           /\ rule.Matches = <<GRPCMatchOfPath(PathsOfRule(r)[p])>>

\* C28: after the grpc-services annotation was processed, every path of every
\* rule is routed by exactly one object under the rule's route key: a path to a
\* listed service by a rule of the GRPCRoute and not by the HTTPRoute, a path to
\* another service by its rule of the HTTPRoute, filters included, and not by
\* the GRPCRoute; so the HTTPRoute is gone only when it has no such rule left.
C28_EveryPathRouted ==
  AnnotationProcessed =>
    \A r \in HTTPRulesOfIngress : \A p \in 1..Len(PathsOfRule(r)) :
       IF PathsOfRule(r)[p].Backend.Service.Name \in ListedGRPCServices
       THEN RoutedByGRPCRoute(r, p) /\ ~RoutedByHTTPRoute(r, p)
       ELSE RoutedByHTTPRoute(r, p) /\ ~RoutedByGRPCRoute(r, p)

\* the returned Warnings of v that its upstream of this name failed the validation
ValidationWarnings(v, name) ==
  {n \in 1..Len(ReturnedFor(v)) :
     /\ ReturnedFor(v)[n].Type = "Warning"
     /\ ReturnedFor(v)[n].Message \in {<<"Upstream '%s' has no service specified", name>>,
                                       <<"Upstream '%s' has no port specified", name>>}}

\* C29: in the returned result, every upstream of a VirtualServer with a host
\* that fails the validation (no service, or no port) has exactly one Warning
\* of the validation.
C29_OneWarningPerInvalidUpstream ==
  pc = "done" =>
    \A i \in 1..Len(virtualServers) :
       virtualServers[i].Spec.Host # <<>> =>
          \A u \in 1..Len(virtualServers[i].Spec.Upstreams) :
             ~ValidUpstream(virtualServers[i].Spec.Upstreams[u]) =>
                Cardinality(ValidationWarnings(virtualServers[i], virtualServers[i].Spec.Upstreams[u].Name)) = 1

\* every key of the map old is a key of the map new, with the same object
Kept(old, new) == \A k \in DOMAIN old : HasKey(new, k) /\ new[k] = old[k]

\* the returned policy under the key of every valid TLS-enabled upstream of a
\* VirtualServer with a host is the policy of that upstream's service
PoliciesOfTheirUpstreams ==
  \A i \in 1..Len(virtualServers) :
     virtualServers[i].Spec.Host # <<>> =>
        \A u \in 1..Len(virtualServers[i].Spec.Upstreams) :
           LET up == virtualServers[i].Spec.Upstreams[u]
               key == PolicyKeyOf(virtualServers[i], up)
           IN (up.TLS.Enable /\ ValidUpstream(up)) =>
                 /\ HasKey(Deref(result).ir.BackendTLSPolicies, key)
                 /\ Deref(result).ir.BackendTLSPolicies[key].TargetRefs[1].Name = up.Service

\* C30: within one call no step changes or removes an object that a map of the
\* IR already holds under a key, and the returned policy under the key of a
\* TLS-enabled upstream is the one written for that upstream's service.
C30_NoSilentOverwrite ==
  /\ [][run' = run => /\ Kept(gatewayMap, gatewayMap')
                      /\ Kept(httpRouteMap, httpRouteMap')
                      /\ Kept(backendTLSPoliciesMap, backendTLSPoliciesMap')
                      /\ Kept(grpcRouteMap, grpcRouteMap')
                      /\ Kept(tcpRouteMap, tcpRouteMap')
                      /\ Kept(tlsRouteMap, tlsRouteMap')
                      /\ Kept(udpRouteMap, udpRouteMap')]_vars
  /\ [](pc = "done" => PoliciesOfTheirUpstreams)

====
